---- MODULE Spec2Model ----
(***************************************************************************)
(* A model of the offline email-analysis pipeline of Phishing_Email_analyzer *)
(* (services/parser.py and services/rules.py).                              *)
(*                                                                         *)
(* Text is modelled at the level of lexical tokens: a header value or a    *)
(* body is a sequence of tokens, and each regular expression of rules.py   *)
(* is the set of tokens it matches.  URLs are sequences of symbols (single *)
(* characters, or an atomic chunk such as a tracking-parameter name).      *)
(*                                                                         *)
(* The module holds one specification per component:                       *)
(*   SpecRules   RuleEngine: add_rule, remove_rule, analyze_email          *)
(*   SpecLabel   RuleEngine._calculate_label_and_confidence                *)
(*   SpecNorm    EmailParser._normalize_url                                *)
(*   SpecParser  EmailParser.parse_email                                   *)
(*   SpecBattery RuleEngine.add_rule / remove_rule, call by call           *)
(*   SpecSchema  AIResponseValidator.validate_response (services/schema.py) *)
(*   SpecAI      analyze_email_with_ai and the request loop (services/ai.py) *)
(*   SpecBatch   a batch job, its worker task and cancel_job               *)
(*               (services/batch_processor.py)                             *)
(*   SpecCache   the in-memory fallback of CacheManager                    *)
(*               (services/cache_manager.py)                               *)
(* The variables of the components a specification does not run stay at    *)
(* their idle values.                                                      *)
(***************************************************************************)
EXTENDS Integers, Sequences, FiniteSets, TLC

VARIABLES
    \* --- rule engine (services/rules.py) ---
    rules,        \* RuleEngine.rules: the ordered battery
    email,        \* the ParsedEmail handed to analyze_email
    hashSeed,     \* the process's string-hash seed (fixes set iteration order)
    result,       \* the DetectionResult of the last analyze_email, or NoResult
    prevResult,   \* the DetectionResult of the evaluation before it, or NoResult
    added,        \* number of add_rule calls made (bounded by MaxAdded)
    \* --- _calculate_label_and_confidence as a function ---
    lcScore,      \* its argument score
    lcCount,      \* its argument evidence_count
    lcOut,        \* what it returned, or NoOutput
    \* --- _normalize_url as a function ---
    nUrl,         \* a URL matched by URL_REGEX
    nOnce,        \* _normalize_url(nUrl), or NoUrl
    nTwice,       \* _normalize_url(_normalize_url(nUrl)), or NoUrl
    \* --- EmailParser.parse_email (services/parser.py) ---
    pMsg,         \* the raw email given to parse_email
    pc,           \* where parse_email is
    pHeaders,     \* headers, once extracted
    pBody,        \* text_body, html_body, html_as_text, once extracted
    pUrls,        \* the local urls of _extract_urls
    pUrlSet,      \* the local url_set of _extract_urls
    pCtx,         \* number of search contexts scanned
    pWarnings,    \* security_warnings
    pResult,      \* the ParsedEmail returned or the error raised, or NoResult
    pSteps,       \* the steps parse_email has executed, in order
    \* --- RuleEngine.add_rule / remove_rule, call by call ---
    bRules,       \* RuleEngine.rules
    bBefore,      \* RuleEngine.rules before the last call
    bCall,        \* the last call [op, arg], or None
    bReturned,    \* what the last call returned (None for add_rule)
    bCalls,       \* number of calls made (bounded by MaxCalls)
    \* --- AIResponseValidator.validate_response as a function ---
    vResponse,    \* its argument response_data
    vOut,         \* the pair (is_valid, error_message) it returned, or NoOutput
    \* --- services/ai.py: analyze_email_with_ai ---
    aiKey,        \* whether OPENAI_API_KEY is set
    aiAnalyzer,   \* _analyzer_instance: None, or its daily counters
    aiPc,         \* where the analysis is: idle, request, reply, done
    aiAttempt,    \* the loop variable attempt of _make_api_request
    aiCalls,      \* calls of client.chat.completions.create in this analysis
    aiOutcomes,   \* how each of these calls ended, in order
    aiReply,      \* what _make_api_request returned, or NoOutput
    aiResult,     \* the AIAnalysisResult returned (or the exception), or NoResult
    aiBefore,     \* _analyzer_instance when the analysis was called
    aiDone,       \* number of analyses finished (bounded by MaxAnalyses)
    \* --- services/batch_processor.py: one batch job ---
    job,          \* the job's row in batch_jobs
    files,        \* the stored files handed to process_batch_job
    taskPc,       \* where the worker task is
    taskI,        \* the worker's position in files (1-based)
    processed,    \* the worker's local counter processed
    failed,       \* the worker's local counter failed
    results,      \* the worker's local list results
    cancelReturned, \* what the last cancel_job call returned, or None
    cancelBefore, \* the job's status when that call was made, or None
    \* --- services/cache_manager.py: the in-memory fallback cache ---
    memory_cache,        \* self._memory_cache: cache key -> value
    memory_cache_expiry, \* self._memory_cache_expiry: cache key -> expiry time
    now,          \* datetime.now(), in hours
    ticks,        \* number of times the clock advanced (bounded by MaxTicks)
    latest,       \* per key: the latest set that succeeded and was not deleted
    cacheCall,    \* the last call made on the cache, or None
    cacheReturned \* what it returned, or NoOutput

ruleVars == <<rules, email, hashSeed, result, prevResult, added>>
labelVars == <<lcScore, lcCount, lcOut>>
normVars == <<nUrl, nOnce, nTwice>>
parserVars ==
    <<pMsg, pc, pHeaders, pBody, pUrls, pUrlSet, pCtx, pWarnings, pResult, pSteps>>
batteryVars == <<bRules, bBefore, bCall, bReturned, bCalls>>
schemaVars == <<vResponse, vOut>>
aiVars == <<aiKey, aiAnalyzer, aiPc, aiAttempt, aiCalls, aiOutcomes, aiReply, aiResult, aiBefore, aiDone>>
batchVars == <<job, files, taskPc, taskI, processed, failed, results, cancelReturned, cancelBefore>>
cacheVars == <<memory_cache, memory_cache_expiry, now, ticks, latest, cacheCall, cacheReturned>>
vars == <<ruleVars, labelVars, normVars, parserVars, batteryVars, schemaVars, aiVars, batchVars, cacheVars>>

\* The variables each specification leaves alone.
notRuleVars == <<labelVars, normVars, parserVars, batteryVars, schemaVars, aiVars, batchVars, cacheVars>>
notLabelVars == <<ruleVars, normVars, parserVars, batteryVars, schemaVars, aiVars, batchVars, cacheVars>>
notNormVars == <<ruleVars, labelVars, parserVars, batteryVars, schemaVars, aiVars, batchVars, cacheVars>>
notParserVars == <<ruleVars, labelVars, normVars, batteryVars, schemaVars, aiVars, batchVars, cacheVars>>
notBatteryVars == <<ruleVars, labelVars, normVars, parserVars, schemaVars, aiVars, batchVars, cacheVars>>
notSchemaVars == <<ruleVars, labelVars, normVars, parserVars, batteryVars, aiVars, batchVars, cacheVars>>
notAiVars == <<ruleVars, labelVars, normVars, parserVars, batteryVars, schemaVars, batchVars, cacheVars>>
notBatchVars == <<ruleVars, labelVars, normVars, parserVars, batteryVars, schemaVars, aiVars, cacheVars>>
notCacheVars == <<ruleVars, labelVars, normVars, parserVars, batteryVars, schemaVars, aiVars, batchVars>>

NoResult == [no_result |-> TRUE]
None == [none |-> TRUE]
NoOutput == [no_output |-> TRUE]

(***************************************************************************)
(* Generic helpers                                                         *)
(***************************************************************************)
Min(a, b) == IF a <= b THEN a ELSE b
Max(a, b) == IF a >= b THEN a ELSE b

Range(s) == {s[i] : i \in 1..Len(s)}

Take(s, n) == SubSeq(s, 1, Min(n, Len(s)))

RECURSIVE SeqsUpTo(_, _)
\* The sequences over S of length at most n.
SeqsUpTo(S, n) ==
    IF n = 0 THEN {<<>>}
    ELSE LET shorter == SeqsUpTo(S, n - 1)
         IN shorter \cup {Append(t, c) : t \in shorter, c \in S}

RECURSIVE Concat(_)
Concat(ss) == IF ss = <<>> THEN <<>> ELSE Head(ss) \o Concat(Tail(ss))

RECURSIVE SelectTokens(_, _)
\* re.findall(pattern, text) for a pattern given as the set of tokens it
\* matches: the matching tokens of the text, in text order.
SelectTokens(text, pat) ==
    IF text = <<>> THEN <<>>
    ELSE (IF Head(text) \in pat THEN <<Head(text)>> ELSE <<>>)
         \o SelectTokens(Tail(text), pat)

(***************************************************************************)
(* services/rules.py: the pattern tables, as sets of tokens                *)
(***************************************************************************)
URL_SHORTENERS ==
    {"bit.ly", "tinyurl.com", "t.co", "goo.gl", "ow.ly", "is.gd", "buff.ly",
     "adf.ly", "short.link", "tiny.cc", "rb.gy", "cutt.ly", "short.io",
     "rebrandly.com", "clck.ru"}

SUSPICIOUS_TLDS ==
    {".top", ".xyz", ".click", ".cam", ".zip", ".download", ".work", ".men",
     ".date", ".racing", ".loan", ".science", ".cf", ".tk", ".ml", ".ga",
     ".country", ".stream"}

\* URGENT_PATTERNS, in list order: the tokens each pattern matches.
URGENT_PATTERNS ==
    << {"urgent"}, {"immediate action"}, {"expires today", "expire today"},
       {"verify your account"}, {"suspended account", "suspend account"},
       {"act now"}, {"time sensitive"}, {"limited time"},
       {"24 hours", "24 hour"}, {"expire soon", "expiring soon"} >>

\* GENERIC_GREETINGS, in list order.
GENERIC_GREETINGS ==
    << {"dear user", "dear customer", "dear client", "dear member", "dear sir",
        "dear madam"},
       {"valued customer", "valued client", "valued member"},
       {"hello user", "hello customer", "hello there"},
       {"greetings user", "greetings customer", "greeting user",
        "greeting customer"} >>

ATTACHMENT_KEYWORDS ==
    << "invoice", "payment", "receipt", "bill", "statement", "document",
       "attachment", "pdf", "download", "password" >>

\* AUTH_FAIL_PATTERNS 1..3, in list order (the fourth is a span pattern,
\* see AuthSpanMatches).
AUTH_FAIL_PATTERNS ==
    << {"spf=fail", "spf=softfail", "spf=none"},
       {"dkim=fail", "dkim=none"},
       {"dmarc=fail", "dmarc=none"} >>

\* Tokens that contain "fail" or "none".
FailOrNone ==
    {"spf=fail", "spf=softfail", "spf=none", "dkim=fail", "dkim=none",
     "dmarc=fail", "dmarc=none"}

(***************************************************************************)
(* Token-level string functions                                            *)
(***************************************************************************)
\* str.lower()
Lower(t) ==
    CASE t = "PayPal.com" -> "paypal.com"
      [] t = "Microsoft" -> "microsoft"
      [] t = "Office" -> "office"
      [] t = "URGENT" -> "urgent"
      [] t = "Dear Customer" -> "dear customer"
      [] t = "SPF=FAIL" -> "spf=fail"
      [] t = "Invoice" -> "invoice"
      [] OTHER -> t

LowerSeq(s) == [i \in 1..Len(s) |-> Lower(s[i])]

\* Tokens matching the domain-like pattern [a-zA-Z0-9.-]+\.[a-zA-Z]{2,}
\* of _extract_domain_from_display_name.
DomainLike == {"paypal.com", "evil.top", "bit.ly", "PayPal.com"}

\* The ATTACHMENT_KEYWORDS that occur as substrings of a token.
KeywordsOf(t) ==
    CASE t = "invoice" -> {"invoice"}
      [] t = "billing statement" -> {"bill", "statement"}
      [] t = "download" -> {"download"}
      [] OTHER -> {}

\* The suffix of a domain from its last dot on.
TldOf(d) ==
    CASE d = "evil.top" -> ".top"
      [] d = "bit.ly" -> ".ly"
      [] d = "paypal.com" -> ".com"
      [] d = "cyrillic-paypal.com" -> ".com"
      [] d = "free.xyz" -> ".xyz"
      [] d = "tinyurl.com" -> ".com"
      [] OTHER -> ""

\* str.isascii(): "cyrillic-paypal.com" stands for a domain spelt with
\* Cyrillic look-alike letters.
IsAscii(d) == d # "cyrillic-paypal.com"

\* The first words of unicodedata.name(c) over the letters of a domain.
ScriptsOf(d) == IF IsAscii(d) THEN {"LATIN"} ELSE {"LATIN", "CYRILLIC"}

\* A fixed rank of matches, by which a hash seed orders a set.
TokenRank(t) ==
    CASE t = "spf=fail" -> 1 [] t = "dkim=fail" -> 2 [] t = "dmarc=none" -> 3
      [] t = "authentication-results:" -> 4
      [] t = "urgent" -> 5 [] t = "act now" -> 6 [] t = "expires today" -> 7
      [] t = "dear customer" -> 8 [] t = "hello there" -> 9
      [] t = "bit.ly" -> 10 [] t = "tinyurl.com" -> 11
      [] OTHER -> 12

Rank(m) == Len(m) * 100 + TokenRank(m[1])

HashSeeds == {"seedA", "seedB"}

RECURSIVE SetOrder(_, _)
\* Iteration order of a Python set of strings: fixed by the process's hash
\* seed (PYTHONHASHSEED, random per process by default), the same for the
\* same set within one process.  Two seeds stand for the orders a build can
\* produce: ascending and descending rank.
SetOrder(S, seed) ==
    IF S = {} THEN <<>>
    ELSE LET x == CHOOSE x \in S : \A y \in S :
                     IF seed = "seedA" THEN Rank(x) <= Rank(y)
                                       ELSE Rank(x) >= Rank(y)
         IN <<x>> \o SetOrder(S \ {x}, seed)

\* re.findall over a list of token patterns: matches pattern by pattern.
FindAll(pats, text) ==
    Concat([i \in 1..Len(pats) |->
              [j \in 1..Len(SelectTokens(text, pats[i])) |->
                  <<SelectTokens(text, pats[i])[j]>>]])

(***************************************************************************)
(* services/rules.py: the rules                                            *)
(***************************************************************************)
RuleEvidence(rule, details, matched) ==
    [rule_id |-> rule.rule_id, description |-> rule.description,
     weight |-> rule.weight, details |-> details, matched_content |-> matched]

\* An address is <<>> or <<local, "@", domain>>.
ExtractDomainFromEmail(addr) ==
    IF "@" \in Range(addr)
    THEN LET i == CHOOSE k \in 1..Len(addr) :
                      addr[k] = "@" /\ \A j \in (k+1)..Len(addr) : addr[j] # "@"
         IN IF i = Len(addr) THEN "" ELSE Lower(addr[i + 1])
    ELSE ""

ExtractDomainFromDisplayName(display) ==
    LET matches == SelectTokens(LowerSeq(display), DomainLike)
    IN IF matches # <<>> THEN matches[1] ELSE ""

HeaderMismatchCheck(rule, e) ==
    LET h == e.headers
        from_domain == ExtractDomainFromEmail(h.from_addr)
        display_domain == ExtractDomainFromDisplayName(h.from_display)
    IN IF h.from_display = <<>> \/ h.from_addr = <<>> THEN None
       ELSE IF display_domain # "" /\ from_domain # "" /\ display_domain # from_domain
            THEN RuleEvidence(rule, <<display_domain, from_domain>>,
                              <<h.from_display, h.from_addr>>)
            ELSE None

ReplyToMismatchCheck(rule, e) ==
    LET h == e.headers
        from_domain == ExtractDomainFromEmail(h.from_addr)
        reply_domain == ExtractDomainFromEmail(h.reply_to)
    IN IF h.reply_to = <<>> \/ h.from_addr = <<>> THEN None
       ELSE IF from_domain # "" /\ reply_domain # "" /\ from_domain # reply_domain
            THEN RuleEvidence(rule, <<from_domain, reply_domain>>,
                              <<h.from_addr, h.reply_to>>)
            ELSE None

\* The fourth AUTH_FAIL_PATTERNS entry, authentication-results:.*(?:fail|none):
\* the span from the first "authentication-results:" token to the last
\* token holding fail or none after it (greedy), if there is one.
AuthSpanMatches(text) ==
    LET starts == {i \in 1..Len(text) : text[i] = "authentication-results:"}
    IN IF starts = {} THEN <<>>
       ELSE LET s == CHOOSE i \in starts : \A j \in starts : i <= j
                ends == {i \in (s + 1)..Len(text) : text[i] \in FailOrNone}
            IN IF ends = {} THEN <<>>
               ELSE LET t == CHOOSE i \in ends : \A j \in ends : i >= j
                    IN << SubSeq(text, s, t) >>

AuthFailureCheck(rule, e, seed) ==
    LET auth_results == LowerSeq(e.headers.authentication_results)
        failures == FindAll(AUTH_FAIL_PATTERNS, auth_results)
                    \o AuthSpanMatches(auth_results)
    IN IF auth_results = <<>> THEN None
       ELSE IF failures # <<>>
            THEN RuleEvidence(rule, SetOrder(Range(failures), seed),
                              Take(auth_results, 200))
            ELSE None

UrgentLanguageCheck(rule, e, seed) ==
    LET text_to_check == LowerSeq(e.headers.subject \o e.text_body \o e.html_as_text)
        matches == FindAll(URGENT_PATTERNS, text_to_check)
        unique_matches == SetOrder(Range(matches), seed)
    IN IF matches # <<>>
       THEN RuleEvidence(rule, Take(unique_matches, 5), unique_matches)
       ELSE None

URLShortenerCheck(rule, e, seed) ==
    LET shortener_urls == SelectTokens([i \in 1..Len(e.urls) |-> e.urls[i].domain],
                                       URL_SHORTENERS)
        unique_shorteners == SetOrder({<<d>> : d \in Range(shortener_urls)}, seed)
    IN IF shortener_urls # <<>>
       THEN RuleEvidence(rule, unique_shorteners, unique_shorteners)
       ELSE None

SuspiciousTLDCheck(rule, e) ==
    LET domains == [i \in 1..Len(e.urls) |-> Lower(e.urls[i].domain)]
        suspicious_domains ==
            Concat([i \in 1..Len(domains) |->
                      IF TldOf(domains[i]) \in SUSPICIOUS_TLDS
                      THEN << <<domains[i], TldOf(domains[i])>> >> ELSE <<>>])
    IN IF suspicious_domains # <<>>
       THEN RuleEvidence(rule, Take(suspicious_domains, 5), suspicious_domains)
       ELSE None

HasMixedScripts(domain) == Cardinality(ScriptsOf(domain)) > 1

UnicodeSpoofCheck(rule, e) ==
    LET suspicious_domains ==
            Concat([i \in 1..Len(e.urls) |->
                      IF ~IsAscii(e.urls[i].domain)
                      THEN << <<e.urls[i].domain, "non-ASCII">> >>
                      ELSE IF HasMixedScripts(e.urls[i].domain)
                           THEN << <<e.urls[i].domain, "mixed-script">> >>
                           ELSE <<>>])
    IN IF suspicious_domains # <<>>
       THEN RuleEvidence(rule, Take(suspicious_domains, 3), suspicious_domains)
       ELSE None

NoPersonalizationCheck(rule, e, seed) ==
    LET text_to_check == LowerSeq(e.text_body \o e.html_as_text)
        matches == FindAll(GENERIC_GREETINGS, text_to_check)
        unique_matches == SetOrder(Range(matches), seed)
    IN IF matches # <<>>
       THEN RuleEvidence(rule, Take(unique_matches, 3), unique_matches)
       ELSE None

AttachmentKeywordsCheck(rule, e) ==
    LET text_to_check == LowerSeq(e.headers.subject \o e.text_body \o e.html_as_text)
        present == UNION {KeywordsOf(t) : t \in Range(text_to_check)}
        found_keywords == SelectTokens(ATTACHMENT_KEYWORDS, present)
    IN IF e.urls = <<>> THEN None
       ELSE IF found_keywords # <<>> /\ Len(e.urls) > 0
            THEN RuleEvidence(rule, <<Take(found_keywords, 3), Len(e.urls)>>,
                              found_keywords)
            ELSE None

(***************************************************************************)
(* services/rules.py: RuleEngine                                           *)
(***************************************************************************)
MkRule(id, desc, w, cls) ==
    [rule_id |-> id, description |-> desc, weight |-> w, class |-> cls]

\* RuleEngine.__init__: the default battery, in order.
DefaultRules ==
    << MkRule("HEADER_MISMATCH", "Display name domain differs from From domain",
              15, "HeaderMismatchRule"),
       MkRule("REPLYTO_MISMATCH", "Reply-To domain differs from From domain",
              10, "ReplyToMismatchRule"),
       MkRule("AUTH_FAIL_HINTS",
              "Authentication-Results indicates SPF/DKIM/DMARC failure",
              20, "AuthFailureRule"),
       MkRule("URGENT_LANGUAGE", "Contains urgent or pressure language",
              10, "UrgentLanguageRule"),
       MkRule("URL_SHORTENER", "Contains URLs from shortening services",
              10, "URLShortenerRule"),
       MkRule("SUSPICIOUS_TLDS", "Contains URLs with suspicious TLDs",
              10, "SuspiciousTLDRule"),
       MkRule("UNICODE_SPOOF", "Potential Unicode spoofing in domains",
              10, "UnicodeSpoofRule"),
       MkRule("NO_PERSONALIZATION",
              "Uses generic greetings without personalization",
              5, "NoPersonalizationRule"),
       MkRule("ATTACHMENT_KEYWORDS",
              "Mentions attachments/payments with links present",
              5, "AttachmentKeywordsRule") >>

\* rule.check(parsed_email), by the rule's class.  A subclass given to
\* add_rule is one of: "AlwaysFires" (returns evidence of its weight),
\* "NeverFires" (returns None), "Raises" (its check raises an Exception; so
\* does the base class Rule, whose check raises NotImplementedError).
\* The outcome is [status, ev].
Check(rule, e, seed) ==
    LET ev ==
          CASE rule.class = "HeaderMismatchRule" -> HeaderMismatchCheck(rule, e)
            [] rule.class = "ReplyToMismatchRule" -> ReplyToMismatchCheck(rule, e)
            [] rule.class = "AuthFailureRule" -> AuthFailureCheck(rule, e, seed)
            [] rule.class = "UrgentLanguageRule" -> UrgentLanguageCheck(rule, e, seed)
            [] rule.class = "URLShortenerRule" -> URLShortenerCheck(rule, e, seed)
            [] rule.class = "SuspiciousTLDRule" -> SuspiciousTLDCheck(rule, e)
            [] rule.class = "UnicodeSpoofRule" -> UnicodeSpoofCheck(rule, e)
            [] rule.class = "NoPersonalizationRule" -> NoPersonalizationCheck(rule, e, seed)
            [] rule.class = "AttachmentKeywordsRule" -> AttachmentKeywordsCheck(rule, e)
            [] rule.class = "AlwaysFires" -> RuleEvidence(rule, <<>>, <<>>)
            [] OTHER -> None
    IN IF rule.class \in {"Raises", "Rule"} THEN [status |-> "raised", ev |-> None]
       ELSE IF ev = None THEN [status |-> "none", ev |-> None]
       ELSE [status |-> "fired", ev |-> ev]

\* The state of the loop of analyze_email: the locals evidence and
\* total_score, and (for the claims) the ids of the rules whose check was
\* called, of those whose check raised, and whether an exception left the loop.
LoopStart ==
    [evidence |-> <<>>, total_score |-> 0, checked |-> <<>>, failed |-> <<>>,
     escaped |-> FALSE]

\* Mutant of OnFired: total_score = result.weight instead of +=.
OnFired_Assign(acc, rule, ev) ==
    [acc EXCEPT !.evidence = Append(@, ev),
                !.total_score = ev.weight,
                !.checked = Append(@, rule.rule_id)]

\* Mutant of OnFired: the evidence is put at the front of the list.
OnFired_Prepend(acc, rule, ev) ==
    [acc EXCEPT !.evidence = <<ev>> \o @,
                !.total_score = @ + ev.weight,
                !.checked = Append(@, rule.rule_id)]

\* if result: evidence.append(result); total_score += result.weight
OnFired(acc, rule, ev) ==
    [acc EXCEPT !.evidence = Append(@, ev),
                !.total_score = @ + ev.weight,
                !.checked = Append(@, rule.rule_id)]

\* Mutant of OnRaised: no except clause, the exception leaves the loop.
OnRaised_Propagates(acc, rule) ==
    [acc EXCEPT !.checked = Append(@, rule.rule_id),
                !.failed = Append(@, rule.rule_id),
                !.escaped = TRUE]

\* except Exception: log and continue.
OnRaised(acc, rule) ==
    [acc EXCEPT !.checked = Append(@, rule.rule_id),
                !.failed = Append(@, rule.rule_id)]

RECURSIVE RunRules(_, _, _, _)
\* for rule in self.rules: try: ... except Exception: continue
RunRules(rs, e, seed, acc) ==
    IF rs = <<>> \/ acc.escaped THEN acc
    ELSE LET rule == Head(rs)
             out == Check(rule, e, seed)
             next == CASE out.status = "raised" -> OnRaised(acc, rule)
                       [] out.status = "fired" -> OnFired(acc, rule, out.ev)
                       [] OTHER -> [acc EXCEPT !.checked = Append(@, rule.rule_id)]
         IN RunRules(Tail(rs), e, seed, next)

SCORE_CAP == 100

\* final_score = min(total_score, 100)
CapScore(total_score) == Min(total_score, SCORE_CAP)

\* Mutant of SafeConfidence: the value is cut to two decimals, not rounded.
SafeConfidence_Cut(score) == (100 * (30 - score)) \div 30

\* round(x, 2) of 1.0 - score / 30.0, in hundredths.
SafeConfidence(score) == (200 * (30 - score) + 30) \div 60

\* Mutant of CalculateLabelAndConfidence: > instead of >= at both thresholds.
CalculateLabelAndConfidence_Strict(score, evidence_count) ==
    LET base_confidence == Min(95, 50 + evidence_count * 10)
    IN IF score > 60
       THEN [label |-> "Likely Phishing", confidence |-> base_confidence]
       ELSE IF score > 30
            THEN [label |-> "Suspicious", confidence |-> (base_confidence * 8) \div 10]
            ELSE [label |-> "Likely Safe",
                  confidence |-> Max(60, SafeConfidence(score))]

\* _calculate_label_and_confidence; confidence in hundredths.
CalculateLabelAndConfidence(score, evidence_count) ==
    LET base_confidence == Min(95, 50 + evidence_count * 10)
    IN IF score >= 60
       THEN [label |-> "Likely Phishing", confidence |-> base_confidence]
       ELSE IF score >= 30
            THEN [label |-> "Suspicious", confidence |-> (base_confidence * 8) \div 10]
            ELSE [label |-> "Likely Safe",
                  confidence |-> Max(60, SafeConfidence(score))]

\* Mutant of BuildResult: rules_checked and rules_fired swapped.
BuildResult_Swapped(rs, acc, final_score, lc) ==
    [score |-> final_score, label |-> lc.label, confidence |-> lc.confidence,
     evidence |-> acc.evidence,
     rules_checked |-> Len(acc.evidence), rules_fired |-> Len(rs),
     outcome |-> IF acc.escaped THEN "raised" ELSE "returned",
     checked |-> acc.checked, failed |-> acc.failed]

\* return DetectionResult(...).  processing_time_ms, a wall-clock measurement
\* that nothing else reads, is left out.  The fields outcome, checked and
\* failed are not part of DetectionResult: they record how the call went.
BuildResult(rs, acc, final_score, lc) ==
    [score |-> final_score, label |-> lc.label, confidence |-> lc.confidence,
     evidence |-> acc.evidence,
     rules_checked |-> Len(rs), rules_fired |-> Len(acc.evidence),
     outcome |-> IF acc.escaped THEN "raised" ELSE "returned",
     checked |-> acc.checked, failed |-> acc.failed]

\* label, confidence = self._calculate_label_and_confidence(final_score, len(evidence))
LabelAndBuild(rs, acc, final_score) ==
    BuildResult(rs, acc, final_score,
                CalculateLabelAndConfidence(final_score, Len(acc.evidence)))

\* What analyze_email does after its loop.
AfterLoop(rs, acc) == LabelAndBuild(rs, acc, CapScore(acc.total_score))

\* RuleEngine.analyze_email
AnalyzeEmailResult(rs, e, seed) == AfterLoop(rs, RunRules(rs, e, seed, LoopStart))

\* remove_rule: delete the first rule with that id, if any.
RemoveFirst(rs, id) ==
    IF \E i \in 1..Len(rs) : rs[i].rule_id = id
    THEN LET i == CHOOSE k \in 1..Len(rs) :
                      rs[k].rule_id = id /\ \A j \in 1..(k-1) : rs[j].rule_id # id
         IN SubSeq(rs, 1, i - 1) \o SubSeq(rs, i + 1, Len(rs))
    ELSE rs

(***************************************************************************)
(* The rule engine's inputs                                                *)
(***************************************************************************)
MaxAdded == 2

\* From display name, From address and Reply-To address: no display name; a
\* display name naming the sender's domain; one naming another domain, with
\* a Reply-To in the sender's domain; one naming no domain, with a Reply-To
\* in another domain.
Senders ==
    { [from_display |-> <<>>, from_addr |-> <<"user", "@", "paypal.com">>,
       reply_to |-> <<>>],
      [from_display |-> <<"PayPal.com">>, from_addr |-> <<"user", "@", "paypal.com">>,
       reply_to |-> <<>>],
      [from_display |-> <<"PayPal.com">>, from_addr |-> <<"user", "@", "evil.top">>,
       reply_to |-> <<"help", "@", "evil.top">>],
      [from_display |-> <<"Microsoft", "Office", "365">>,
       from_addr |-> <<"user", "@", "paypal.com">>,
       reply_to |-> <<"help", "@", "evil.top">>] }
AuthResults ==
    { <<>>, <<"SPF=FAIL", "dkim=fail">>,
      <<"authentication-results:", "mx", "dmarc=none">> }
\* Subject, bodies and the URLs extracted from them.
Bodies ==
    { [subject |-> <<>>, text_body |-> <<>>, html_as_text |-> <<>>,
       urls |-> <<>>],
      [subject |-> <<"URGENT">>, text_body |-> <<"Dear Customer", "Invoice">>,
       html_as_text |-> <<>>,
       urls |-> <<"bit.ly", "tinyurl.com", "paypal.com">>],
      [subject |-> <<"meeting">>, text_body |-> <<"act now", "urgent">>,
       html_as_text |-> <<"billing statement">>,
       urls |-> <<"evil.top", "cyrillic-paypal.com">>],
      [subject |-> <<>>, text_body |-> <<"Invoice", "hello there">>,
       html_as_text |-> <<>>, urls |-> <<>>] }

\* A message sent from a .top domain, with a Reply-To on another domain, a
\* failed SPF check, urgent text and one link, to bit.ly.
TopDomainEmail ==
    [headers |-> [from_display |-> <<>>,
                  from_addr |-> <<"admin", "@", "evil.top">>,
                  reply_to |-> <<"help", "@", "other.net">>,
                  authentication_results |-> <<"mx", "spf=fail">>,
                  subject |-> <<"URGENT">>],
     text_body |-> <<"act now">>, html_as_text |-> <<>>,
     urls |-> << [domain |-> "bit.ly"] >>]

\* The messages a caller analyses after another one.
Followups == {TopDomainEmail}

\* The messages a caller analyses first.
Emails ==
    { [headers |-> [from_display |-> s.from_display, from_addr |-> s.from_addr,
                    reply_to |-> s.reply_to,
                    authentication_results |-> a, subject |-> b.subject],
       text_body |-> b.text_body, html_as_text |-> b.html_as_text,
       urls |-> [i \in 1..Len(b.urls) |-> [domain |-> b.urls[i]]]] :
      s \in Senders, a \in AuthResults, b \in Bodies }

\* Rules a caller hands to add_rule.
CustomRules ==
    { MkRule("CUSTOM_BIG", "custom rule", 90, "AlwaysFires"),
      MkRule("CUSTOM_NEG", "custom rule", -5, "AlwaysFires"),
      MkRule("CUSTOM_ERR", "custom rule", 10, "Raises") }

RemoveIds == {"HEADER_MISMATCH", "CUSTOM_ERR", "NO_SUCH_RULE"}

NoEmail == [no_email |-> TRUE]

(***************************************************************************)
(* Idle values of each component's variables                               *)
(***************************************************************************)
RulesIdle ==
    /\ rules = <<>> /\ email = NoEmail /\ hashSeed = "seedA"
    /\ result = NoResult /\ prevResult = NoResult /\ added = 0

LabelIdle == lcScore = 0 /\ lcCount = 0 /\ lcOut = NoOutput

NormIdle == nUrl = <<>> /\ nOnce = <<>> /\ nTwice = <<>>

ParserIdle ==
    /\ pMsg = NoEmail /\ pc = "idle" /\ pHeaders = NoOutput /\ pBody = NoOutput
    /\ pUrls = <<>> /\ pUrlSet = {} /\ pCtx = 0 /\ pWarnings = <<>>
    /\ pResult = NoResult /\ pSteps = <<>>

BatteryIdle ==
    /\ bRules = <<>> /\ bBefore = <<>> /\ bCall = None /\ bReturned = None
    /\ bCalls = 0

SchemaIdle == vResponse = None /\ vOut = NoOutput

AiIdle ==
    /\ aiKey = FALSE /\ aiAnalyzer = None /\ aiPc = "off" /\ aiAttempt = 0
    /\ aiCalls = 0 /\ aiOutcomes = <<>> /\ aiReply = NoOutput
    /\ aiResult = NoResult /\ aiBefore = None /\ aiDone = 0

BatchIdle ==
    /\ job = None /\ files = <<>> /\ taskPc = "off" /\ taskI = 0
    /\ processed = 0 /\ failed = 0 /\ results = <<>>
    /\ cancelReturned = None /\ cancelBefore = None

CacheIdle ==
    /\ memory_cache = <<>> /\ memory_cache_expiry = <<>> /\ now = 0 /\ ticks = 0
    /\ latest = <<>> /\ cacheCall = None /\ cacheReturned = NoOutput

(***************************************************************************)
(* SpecRules: the rule engine                                              *)
(***************************************************************************)
RulesInit ==
    /\ rules = DefaultRules
    /\ email \in Emails
    /\ hashSeed \in HashSeeds
    /\ result = NoResult
    /\ prevResult = NoResult
    /\ added = 0
    /\ LabelIdle /\ NormIdle /\ ParserIdle /\ BatteryIdle /\ SchemaIdle /\ AiIdle /\ BatchIdle /\ CacheIdle

\* Mutant of RuleAfterCheck: a rule that counts its own firings in its weight.
RuleAfterCheck_Counting(rule, e, seed) ==
    IF Check(rule, e, seed).status = "fired"
    THEN [rule EXCEPT !.weight = @ + 1] ELSE rule

\* The rule object after rule.check(parsed_email): the checks of rules.py
\* assign to locals only, never to an attribute of self.
RuleAfterCheck(rule, e, seed) == rule

\* The ParsedEmail after rule.check(parsed_email): the checks read headers,
\* text_body, html_as_text and urls and assign to none of them.
ParsedEmailAfterCheck(rule, e) == e

\* self.rules after analyze_email: the loop assigns to the locals evidence
\* and total_score; what it leaves of each rule is what the check left.
RulesAfterAnalysis(rs, e, seed) ==
    [i \in 1..Len(rs) |-> RuleAfterCheck(rs[i], e, seed)]

RECURSIVE ParsedEmailAfterAnalysis(_, _)
\* parsed_email after analyze_email: the object as the checks left it, one
\* after the other.
ParsedEmailAfterAnalysis(rs, e) ==
    IF rs = <<>> THEN e
    ELSE ParsedEmailAfterAnalysis(Tail(rs), ParsedEmailAfterCheck(Head(rs), e))

\* engine.analyze_email(email)
AnalyzeEmail ==
    /\ result' = AnalyzeEmailResult(rules, email, hashSeed)
    /\ prevResult' = result
    /\ rules' = RulesAfterAnalysis(rules, email, hashSeed)
    /\ email' = ParsedEmailAfterAnalysis(rules, email)
    /\ UNCHANGED <<hashSeed, added>>
    /\ UNCHANGED notRuleVars

\* The caller, done with one message, turns to the next one with the same
\* engine.
NextMessage ==
    /\ result # NoResult
    /\ email \in Emails
    /\ email' \in Followups
    /\ result' = NoResult /\ prevResult' = NoResult
    /\ UNCHANGED <<rules, hashSeed, added>>
    /\ UNCHANGED notRuleVars

\* engine.add_rule(rule)
AddRule ==
    /\ added < MaxAdded
    /\ \E r \in CustomRules : rules' = Append(rules, r)
    /\ added' = added + 1
    /\ result' = NoResult /\ prevResult' = NoResult
    /\ UNCHANGED <<email, hashSeed>>
    /\ UNCHANGED notRuleVars

\* engine.remove_rule(rule_id)
RemoveRule ==
    /\ \E id \in RemoveIds :
          /\ rules' = RemoveFirst(rules, id)
          /\ IF rules' = rules
             THEN UNCHANGED <<result, prevResult>>
             ELSE result' = NoResult /\ prevResult' = NoResult
    /\ UNCHANGED <<email, hashSeed, added>>
    /\ UNCHANGED notRuleVars

\* The program ends and a new process starts: a new hash seed, a new engine.
\* The results already returned stay with the caller when they are results of
\* the default battery.
Restart ==
    /\ hashSeed' \in HashSeeds
    /\ rules' = DefaultRules
    /\ added' = 0
    /\ IF rules = DefaultRules
       THEN UNCHANGED <<result, prevResult>>
       ELSE result' = NoResult /\ prevResult' = NoResult
    /\ UNCHANGED email
    /\ UNCHANGED notRuleVars

RulesNext == AnalyzeEmail \/ NextMessage \/ AddRule \/ RemoveRule \/ Restart

SpecRules == RulesInit /\ [][RulesNext]_vars

(***************************************************************************)
(* SpecBattery: add_rule and remove_rule, call by call                     *)
(***************************************************************************)
MaxCalls == 3

\* The rule ids a caller hands to remove_rule.
BatteryRemoveIds == {"HEADER_MISMATCH", "CUSTOM_NEG", "CUSTOM_ERR", "NO_SUCH_RULE"}

\* Mutant of RemoveRuleReturn: remove_rule reports True whatever it did.
RemoveRuleReturn_True(rs, id) == TRUE

\* remove_rule: return True from the loop at the first rule with that id,
\* return False after it.
RemoveRuleReturn(rs, id) == \E i \in 1..Len(rs) : rs[i].rule_id = id

BatteryInit ==
    /\ bRules = DefaultRules /\ bBefore = DefaultRules
    /\ bCall = None /\ bReturned = None /\ bCalls = 0
    /\ RulesIdle /\ LabelIdle /\ NormIdle /\ ParserIdle /\ SchemaIdle /\ AiIdle /\ BatchIdle /\ CacheIdle

\* engine.add_rule(rule)
AddRuleCall ==
    /\ bCalls < MaxCalls
    /\ \E r \in CustomRules :
          /\ bRules' = Append(bRules, r)
          /\ bCall' = [op |-> "add_rule", arg |-> r]
    /\ bBefore' = bRules
    /\ bReturned' = None
    /\ bCalls' = bCalls + 1
    /\ UNCHANGED notBatteryVars

\* engine.remove_rule(rule_id)
RemoveRuleCall ==
    /\ bCalls < MaxCalls
    /\ \E id \in BatteryRemoveIds :
          /\ bRules' = RemoveFirst(bRules, id)
          /\ bReturned' = RemoveRuleReturn(bRules, id)
          /\ bCall' = [op |-> "remove_rule", arg |-> id]
    /\ bBefore' = bRules
    /\ bCalls' = bCalls + 1
    /\ UNCHANGED notBatteryVars

BatteryNext == AddRuleCall \/ RemoveRuleCall

SpecBattery == BatteryInit /\ [][BatteryNext]_vars

(***************************************************************************)
(* services/schema.py: validate_response.  A response is its score, its    *)
(* label, the weights of its evidence items, and whether the rest of it    *)
(* conforms to the schema (an object with exactly the three required       *)
(* properties, at most 20 evidence items, each with a well-formed id and   *)
(* description and nothing else).                                          *)
(***************************************************************************)
\* The enum of "label" in AI_RESPONSE_SCHEMA.
SCHEMA_LABELS == {"Likely Safe", "Suspicious", "Likely Phishing"}

RECURSIVE SumWeights(_)
\* sum(item.get('weight', 0) for item in evidence)
SumWeights(evidence) ==
    IF evidence = <<>> THEN 0 ELSE Head(evidence) + SumWeights(Tail(evidence))

\* validate(instance=response_data, schema=self.schema) raises no
\* ValidationError.
SchemaValid(r) ==
    /\ r.conforms
    /\ r.score \in 0..100
    /\ r.label \in SCHEMA_LABELS
    /\ \A i \in 1..Len(r.evidence) : r.evidence[i] \in 1..100

\* Mutant of LabelError: the bands are tested with > 70 and < 30.
LabelError_Strict(score, label) ==
    IF score > 70 /\ label # "Likely Phishing"
    THEN "High score should have 'Likely Phishing' label"
    ELSE IF score < 30 /\ label # "Likely Safe"
    THEN "Low score should have 'Likely Safe' label"
    ELSE IF 30 < score /\ score < 70 /\ label # "Suspicious"
    THEN "Medium score should have 'Suspicious' label"
    ELSE ""

\* "Ensure label matches score range": the message of the branch taken, or
\* "" when none is.
LabelError(score, label) ==
    IF score >= 70 /\ label # "Likely Phishing"
    THEN "High score should have 'Likely Phishing' label"
    ELSE IF score <= 30 /\ label # "Likely Safe"
    THEN "Low score should have 'Likely Safe' label"
    ELSE IF 30 < score /\ score < 70 /\ label # "Suspicious"
    THEN "Medium score should have 'Suspicious' label"
    ELSE ""

\* if evidence: ... if total_weight > score * 2
WeightsTooHigh(score, evidence) ==
    evidence # <<>> /\ SumWeights(evidence) > score * 2

\* AIResponseValidator.validate_response
ValidateResponse(r) ==
    IF ~SchemaValid(r)
    THEN [is_valid |-> FALSE, error_message |-> "Schema validation failed"]
    ELSE IF LabelError(r.score, r.label) # ""
    THEN [is_valid |-> FALSE, error_message |-> LabelError(r.score, r.label)]
    ELSE IF WeightsTooHigh(r.score, r.evidence)
    THEN [is_valid |-> FALSE, error_message |-> "Evidence weights too high for score"]
    ELSE [is_valid |-> TRUE, error_message |-> None]

(***************************************************************************)
(* SpecSchema: validate_response as a pure function                        *)
(***************************************************************************)
MaxItems == 2

\* Scores, labels and evidence weights in and out of the schema's ranges.
ResponseScores == (0 - 1)..101
ResponseLabels == SCHEMA_LABELS \cup {"Spam"}
ResponseWeights == {0, 1, 70}

Responses ==
    [score : ResponseScores, label : ResponseLabels,
     evidence : SeqsUpTo(ResponseWeights, MaxItems), conforms : BOOLEAN]

SchemaInit ==
    /\ vResponse \in Responses
    /\ vOut = NoOutput
    /\ RulesIdle /\ LabelIdle /\ NormIdle /\ ParserIdle /\ BatteryIdle /\ AiIdle /\ BatchIdle /\ CacheIdle

SchemaApply ==
    /\ vOut = NoOutput
    /\ vOut' = ValidateResponse(vResponse)
    /\ UNCHANGED vResponse
    /\ UNCHANGED notSchemaVars

SchemaNext == SchemaApply

SpecSchema == SchemaInit /\ [][SchemaNext]_vars

(***************************************************************************)
(* services/ai.py.  Costs are in units of 10^-8 dollar.                    *)
(***************************************************************************)
MAX_TOKENS == 1000
MAX_RETRIES == 2
COST_PER_INPUT_TOKEN == 15
COST_PER_OUTPUT_TOKEN == 60

\* What json.loads gave that is not a dict with the response's keys: an
\* empty object or null (falsy), or a list (truthy).
EmptyJson == [json |-> "empty"]
ListJson == [json |-> "list"]

\* sanitize_response: score and weights clamped, an unknown label replaced;
\* for a value without .get, the except clause's default.
SanitizeResponse(r) ==
    IF r \in {EmptyJson, ListJson}
    THEN [score |-> 50, label |-> "Suspicious", evidence |-> <<10>>,
          conforms |-> TRUE]
    ELSE [score |-> Max(0, Min(100, r.score)),
          label |-> IF r.label \in SCHEMA_LABELS THEN r.label ELSE "Suspicious",
          evidence |-> [i \in 1..Len(r.evidence) |->
                          Max(1, Min(100, r.evidence[i]))],
          conforms |-> r.conforms]

\* validate_ai_response: (is_valid, error, sanitized)
ValidateAiResponse(r) ==
    [is_valid |-> ValidateResponse(SanitizeResponse(r)).is_valid,
     error |-> ValidateResponse(SanitizeResponse(r)).error_message,
     sanitized |-> SanitizeResponse(r)]

\* _calculate_cost
CalculateCost(input_tokens, output_tokens) ==
    input_tokens * COST_PER_INPUT_TOKEN + output_tokens * COST_PER_OUTPUT_TOKEN

\* --- _make_api_request ---
\* Mutant of CanRetry: one retry less.
CanRetry_Less(attempt) == attempt < MAX_RETRIES - 1

\* if attempt < MAX_RETRIES: continue
CanRetry(attempt) == attempt < MAX_RETRIES

\* A message f"{prefix}{detail}"; a record, so that it compares with None.
ErrorText(prefix, detail) == [prefix |-> prefix, detail |-> detail]

\* The error the last attempt returns.
AttemptError(outcome) ==
    IF outcome.kind = "bad_json"
    THEN ErrorText("Invalid JSON response: ", outcome.message)
    ELSE ErrorText("API request failed: ", outcome.message)

\* What one pass of the loop does, given how the API call ended: return
\* (returned, reply) or go on with the next attempt.
Attempt(attempt, outcome) ==
    IF outcome.kind = "json"
    THEN [returned |-> TRUE,
          reply |-> [response_data |-> outcome.data,
                     tokens_used |-> outcome.tokens, error |-> None]]
    ELSE IF CanRetry(attempt)
    THEN [returned |-> FALSE, reply |-> NoOutput]
    ELSE [returned |-> TRUE,
          reply |-> [response_data |-> None, tokens_used |-> 0,
                     error |-> AttemptError(outcome)]]

\* --- analyze_email ---
AIAnalysisResult(score, label, evidence, tokens_used, cost_estimate, success,
                 error_message) ==
    [outcome |-> "returned", score |-> score, label |-> label,
     evidence |-> evidence, tokens_used |-> tokens_used,
     cost_estimate |-> cost_estimate, success |-> success,
     error_message |-> error_message]

\* Mutant of AiErrorResult: the error is not passed on.
AiErrorResult_Silent(reply) ==
    AIAnalysisResult(50, "Suspicious", <<"AI_ERROR">>, 0, 0, FALSE, None)

\* The result for "if error or not response_data".
AiErrorResult(reply) ==
    AIAnalysisResult(50, "Suspicious", <<"AI_ERROR">>, 0, 0, FALSE, reply.error)

\* if error or not response_data
RequestFailed(reply) ==
    reply.error # None \/ reply.response_data \in {None, EmptyJson}

ValidationErrorResult(reply) ==
    AIAnalysisResult(50, "Suspicious", <<"VALIDATION_ERROR">>, reply.tokens_used,
                     CalculateCost(reply.tokens_used, MAX_TOKENS), FALSE,
                     ErrorText("", ValidateAiResponse(reply.response_data).error))

\* cost = self._calculate_cost(tokens_used, len(evidence) * 50)
SuccessCost(reply) ==
    CalculateCost(reply.tokens_used,
                  Len(ValidateAiResponse(reply.response_data).sanitized.evidence) * 50)

SuccessResult(reply) ==
    AIAnalysisResult(ValidateAiResponse(reply.response_data).sanitized.score,
                     ValidateAiResponse(reply.response_data).sanitized.label,
                     ValidateAiResponse(reply.response_data).sanitized.evidence,
                     reply.tokens_used, SuccessCost(reply), TRUE, None)

\* analyze_email from the return of _make_api_request on.
ResultOfReply(reply) ==
    IF RequestFailed(reply) THEN AiErrorResult(reply)
    ELSE IF ~ValidateAiResponse(reply.response_data).is_valid
    THEN ValidationErrorResult(reply)
    ELSE SuccessResult(reply)

\* self.daily_tokens_used += tokens_used; self.daily_cost += cost, on the
\* path of a valid response only.
AnalyzerAfter(analyzer, reply) ==
    IF RequestFailed(reply) \/ ~ValidateAiResponse(reply.response_data).is_valid
    THEN analyzer
    ELSE [daily_tokens_used |-> analyzer.daily_tokens_used + reply.tokens_used,
          daily_cost |-> analyzer.daily_cost + SuccessCost(reply)]

\* The except clause of analyze_email.
SystemErrorResult(message) ==
    AIAnalysisResult(50, "Suspicious", <<"SYSTEM_ERROR">>, 0, 0, FALSE, message)

\* Mutant of ConfigErrorResult: the exception of get_ai_analyzer is let through.
ConfigErrorResult_Raise(message) == [outcome |-> "raised", message |-> message]

\* The except clause of analyze_email_with_ai.
ConfigErrorResult(message) ==
    AIAnalysisResult(50, "Suspicious", <<"CONFIG_ERROR">>, 0, 0, FALSE, message)

(***************************************************************************)
(* SpecAI: analyze_email_with_ai, attempt by attempt                       *)
(***************************************************************************)
MaxAnalyses == 2

\* How a call of client.chat.completions.create can end: an exception (a
\* timeout, a response without content), text that is not JSON, or JSON.
ApiOutcomes ==
    {[kind |-> "exception", message |-> "Request timed out"],
     [kind |-> "bad_json", message |-> "Expecting value"]}
    \cup {[kind |-> "json", data |-> d, tokens |-> 100] :
             d \in {EmptyJson, ListJson,
                    [score |-> 72, label |-> "Likely Phishing",
                     evidence |-> <<25, 20>>, conforms |-> TRUE],
                    [score |-> 85, label |-> "Likely Safe",
                     evidence |-> <<>>, conforms |-> TRUE]}}

AiInit ==
    /\ aiKey \in BOOLEAN
    /\ aiAnalyzer = None /\ aiPc = "idle" /\ aiAttempt = 0
    /\ aiCalls = 0 /\ aiOutcomes = <<>> /\ aiReply = NoOutput
    /\ aiResult = NoResult /\ aiBefore = None /\ aiDone = 0
    /\ RulesIdle /\ LabelIdle /\ NormIdle /\ ParserIdle /\ BatteryIdle /\ SchemaIdle /\ BatchIdle /\ CacheIdle

\* analyze_email_with_ai(parsed_email) up to the request loop:
\* get_ai_analyzer, which raises ValueError without an API key, then the
\* prompt, whose construction raises for a ParsedEmail without headers.
StartAnalysis ==
    /\ aiPc = "idle"
    /\ aiBefore' = aiAnalyzer
    /\ \E prompt_raises \in BOOLEAN :
          IF aiAnalyzer = None /\ ~aiKey
          THEN /\ aiResult' = ConfigErrorResult(ErrorText("", "OpenAI API key not found"))
               /\ aiPc' = "done"
               /\ UNCHANGED aiAnalyzer
          ELSE /\ aiAnalyzer' = IF aiAnalyzer = None
                                THEN [daily_tokens_used |-> 0, daily_cost |-> 0]
                                ELSE aiAnalyzer
               /\ IF prompt_raises
                  THEN /\ aiResult' = SystemErrorResult(
                                        ErrorText("", "'NoneType' object has no attribute 'subject'"))
                       /\ aiPc' = "done"
                  ELSE /\ aiPc' = "request"
                       /\ UNCHANGED aiResult
    /\ UNCHANGED <<aiKey, aiAttempt, aiCalls, aiOutcomes, aiReply, aiDone>>
    /\ UNCHANGED notAiVars

\* One pass of the loop of _make_api_request.
ApiAttempt ==
    /\ aiPc = "request"
    /\ \E outcome \in ApiOutcomes :
          /\ aiOutcomes' = Append(aiOutcomes, outcome.kind)
          /\ IF Attempt(aiAttempt, outcome).returned
             THEN /\ aiReply' = Attempt(aiAttempt, outcome).reply
                  /\ aiPc' = "reply"
                  /\ UNCHANGED aiAttempt
             ELSE /\ aiAttempt' = aiAttempt + 1
                  /\ UNCHANGED <<aiReply, aiPc>>
    /\ aiCalls' = aiCalls + 1
    /\ UNCHANGED <<aiKey, aiAnalyzer, aiResult, aiBefore, aiDone>>
    /\ UNCHANGED notAiVars

\* analyze_email after _make_api_request returned.
FinishAnalysis ==
    /\ aiPc = "reply"
    /\ aiResult' = ResultOfReply(aiReply)
    /\ aiAnalyzer' = AnalyzerAfter(aiAnalyzer, aiReply)
    /\ aiPc' = "done"
    /\ UNCHANGED <<aiKey, aiAttempt, aiCalls, aiOutcomes, aiReply, aiBefore, aiDone>>
    /\ UNCHANGED notAiVars

\* The caller takes the result; the analyzer instance stays.
NextAnalysis ==
    /\ aiPc = "done" /\ aiDone + 1 < MaxAnalyses
    /\ aiDone' = aiDone + 1
    /\ aiPc' = "idle" /\ aiAttempt' = 0 /\ aiCalls' = 0 /\ aiOutcomes' = <<>>
    /\ aiReply' = NoOutput /\ aiResult' = NoResult
    /\ UNCHANGED <<aiKey, aiAnalyzer, aiBefore>>
    /\ UNCHANGED notAiVars

AiNext == StartAnalysis \/ ApiAttempt \/ FinishAnalysis \/ NextAnalysis

SpecAI == AiInit /\ [][AiNext]_vars

(***************************************************************************)
(* services/batch_processor.py                                             *)
(***************************************************************************)
\* The row create_batch_job inserts into batch_jobs.
NewJob(email_files) ==
    [status |-> "pending", total_emails |-> Len(email_files),
     processed_emails |-> 0, failed_emails |-> 0,
     results |-> None, error_message |-> None]

\* _process_single_email_sync: the dict it returns.  Every exception of
\* reading, parsing and analysing is caught inside and becomes a result of
\* status 'failed'; the method has no raising exit.
ProcessSingleEmailSync(file_info) ==
    IF file_info = "parseable"
    THEN [filename |-> file_info, status |-> "completed"]
    ELSE [filename |-> file_info, status |-> "failed"]

\* _update_job_status: UPDATE batch_jobs SET status = ? ... WHERE id = ?
UpdateJobStatus(row, status, error_message) ==
    [row EXCEPT !.status = status,
                !.error_message = IF error_message = None THEN @ ELSE error_message]

\* _update_job_progress: UPDATE batch_jobs SET processed_emails = ?,
\* failed_emails = ? WHERE id = ?
UpdateJobProgress(row, n_processed, n_failed) ==
    [row EXCEPT !.processed_emails = n_processed, !.failed_emails = n_failed]

CountStatus(rs, status) == Cardinality({i \in 1..Len(rs) : rs[i].status = status})

\* _complete_job: UPDATE batch_jobs SET status = 'completed', results = ?
\* WHERE id = ?
CompleteJobRow(row, rs) ==
    [row EXCEPT !.status = "completed",
                !.results = [total_processed |-> Len(rs),
                             successful |-> CountStatus(rs, "completed"),
                             failed |-> CountStatus(rs, "failed")]]

\* cancel_job: UPDATE batch_jobs SET status = 'cancelled' WHERE id = ? AND
\* status IN ('pending', 'processing'); returns rowcount > 0.
Cancellable(row) == row.status \in {"pending", "processing"}

CancelJobRow(row) ==
    IF Cancellable(row) THEN [row EXCEPT !.status = "cancelled"] ELSE row

(***************************************************************************)
(* SpecBatch: one job, the task process_batch_job statement by statement,  *)
(* and cancel_job called from the web process at any moment                *)
(***************************************************************************)
MaxFiles == 3

FileKinds == {"parseable", "unreadable"}

BatchInit ==
    /\ files \in SeqsUpTo(FileKinds, MaxFiles)
    /\ job = NewJob(files)
    /\ taskPc = "queued" /\ taskI = 1
    /\ processed = 0 /\ failed = 0 /\ results = <<>>
    /\ cancelReturned = None /\ cancelBefore = None
    /\ RulesIdle /\ LabelIdle /\ NormIdle /\ ParserIdle /\ BatteryIdle /\ SchemaIdle /\ AiIdle /\ CacheIdle

\* processor._update_job_status(job_id, 'processing')
TaskStart ==
    /\ taskPc = "queued"
    /\ job' = UpdateJobStatus(job, "processing", None)
    /\ taskPc' = "loop"
    /\ UNCHANGED <<files, taskI, processed, failed, results, cancelReturned, cancelBefore>>
    /\ UNCHANGED notBatchVars

\* One pass of "for i, file_info in enumerate(files)": the result is
\* appended and processed incremented, then the progress is written.
\* The except branch (failed += 1) needs an exception out of
\* _process_single_email_sync, which has none.
TaskProcessEmail ==
    /\ taskPc = "loop" /\ taskI <= Len(files)
    /\ results' = Append(results, ProcessSingleEmailSync(files[taskI]))
    /\ processed' = processed + 1
    /\ job' = UpdateJobProgress(job, processed', failed)
    /\ taskI' = taskI + 1
    /\ UNCHANGED <<files, taskPc, failed, cancelReturned, cancelBefore>>
    /\ UNCHANGED notBatchVars

\* processor._complete_job(job_id, results), up to conn.commit()
TaskCompleteJob ==
    /\ taskPc = "loop" /\ taskI > Len(files)
    /\ job' = CompleteJobRow(job, results)
    /\ taskPc' = "save"
    /\ UNCHANGED <<files, taskI, processed, failed, results, cancelReturned, cancelBefore>>
    /\ UNCHANGED notBatchVars

\* _complete_job writes the results file and the task returns.
TaskSaveResults ==
    /\ taskPc = "save"
    /\ taskPc' = "done"
    /\ UNCHANGED <<job, files, taskI, processed, failed, results, cancelReturned, cancelBefore>>
    /\ UNCHANGED notBatchVars

\* An exception in the task (update_state, a locked database, the results
\* file): except Exception: processor._update_job_status(job_id, 'failed',
\* str(e)); raise
TaskFails ==
    /\ taskPc \in {"loop", "save"}
    /\ job' = UpdateJobStatus(job, "failed", [prefix |-> "", detail |-> "task failed"])
    /\ taskPc' = "done"
    /\ UNCHANGED <<files, taskI, processed, failed, results, cancelReturned, cancelBefore>>
    /\ UNCHANGED notBatchVars

\* cancel_job(job_id), from another process; the task is not told.
CancelJob ==
    /\ cancelBefore' = job.status
    /\ cancelReturned' = [updated |-> Cancellable(job)]
    /\ job' = CancelJobRow(job)
    /\ UNCHANGED <<files, taskPc, taskI, processed, failed, results>>
    /\ UNCHANGED notBatchVars

BatchNext ==
    \/ TaskStart \/ TaskProcessEmail \/ TaskCompleteJob \/ TaskSaveResults
    \/ TaskFails \/ CancelJob

SpecBatch == BatchInit /\ [][BatchNext]_vars

(***************************************************************************)
(* services/cache_manager.py with redis_available = False.  Times are in   *)
(* hours.                                                                  *)
(***************************************************************************)
default_expire_hours == 24

\* _get_key
GetKey(key) == "phishing_detector:" \o key

\* dict.pop(k, None) and d[k] = v
Pop(d, k) == [x \in (DOMAIN d) \ {k} |-> d[x]]

Put(d, k, v) == [x \in (DOMAIN d) \cup {k} |-> IF x = k THEN v ELSE d[x]]

\* Mutant of NotExpired: an entry is still served at its expiry time.
NotExpired_Inclusive(current_time, expiry_time) == current_time <= expiry_time

\* expiry_time and datetime.now() < expiry_time
NotExpired(current_time, expiry_time) == current_time < expiry_time

\* The test get and exists make on the entry of cache_key.
IsLive(cache, expiry, current_time, cache_key) ==
    /\ cache_key \in DOMAIN cache
    /\ cache_key \in DOMAIN expiry
    /\ NotExpired(current_time, expiry[cache_key])

\* get: the value returned
GetReturn(cache, expiry, current_time, cache_key) ==
    IF IsLive(cache, expiry, current_time, cache_key) THEN cache[cache_key]
    ELSE None

\* get and exists: an entry found expired is removed from both maps.
DropExpired(d, cache, expiry, current_time, cache_key) ==
    IF cache_key \in DOMAIN cache /\ ~IsLive(cache, expiry, current_time, cache_key)
    THEN Pop(d, cache_key)
    ELSE d

\* expire_hours = expire_hours or self.default_expire_hours
ExpireHours(expire_hours) ==
    IF expire_hours = 0 THEN default_expire_hours ELSE expire_hours

\* cleanup_expired: expired_keys
ExpiredKeys(expiry, current_time) ==
    {k \in DOMAIN expiry : current_time >= expiry[k]}

Without(d, keys) == [x \in (DOMAIN d) \ keys |-> d[x]]

(***************************************************************************)
(* SpecCache: calls of get, set, delete, exists and cleanup_expired, and   *)
(* the clock                                                               *)
(***************************************************************************)
MaxTicks == 2

CacheKeyNames == {"url:a", "ai:b"}

\* Cached values; expire_hours 0 stands for the default None.
CacheValues == {[value |-> "v1"], [value |-> "v2"]}

ExpireHoursGiven == {0, 1}

TickHours == {1, default_expire_hours}

CacheInit ==
    /\ memory_cache = <<>> /\ memory_cache_expiry = <<>>
    /\ now = 0 /\ ticks = 0
    /\ latest = [k \in CacheKeyNames |-> None]
    /\ cacheCall = None /\ cacheReturned = NoOutput
    /\ RulesIdle /\ LabelIdle /\ NormIdle /\ ParserIdle /\ BatteryIdle /\ SchemaIdle /\ AiIdle /\ BatchIdle

CacheGet ==
    \E key \in CacheKeyNames :
      /\ cacheCall' = [op |-> "get", key |-> key, at |-> now]
      /\ cacheReturned' = GetReturn(memory_cache, memory_cache_expiry, now, GetKey(key))
      /\ memory_cache' = DropExpired(memory_cache, memory_cache,
                                     memory_cache_expiry, now, GetKey(key))
      /\ memory_cache_expiry' = DropExpired(memory_cache_expiry, memory_cache,
                                            memory_cache_expiry, now, GetKey(key))
      /\ UNCHANGED <<now, ticks, latest>>
      /\ UNCHANGED notCacheVars

\* set; _serialize_value raises for a value that neither json nor pickle
\* can dump, and set then returns False without storing anything.
CacheSet ==
    \E key \in CacheKeyNames, value \in CacheValues,
       expire_hours \in ExpireHoursGiven, serializable \in BOOLEAN :
      /\ cacheCall' = [op |-> "set", key |-> key, at |-> now]
      /\ cacheReturned' = serializable
      /\ IF serializable
         THEN /\ memory_cache' = Put(memory_cache, GetKey(key), value)
              /\ memory_cache_expiry' =
                   Put(memory_cache_expiry, GetKey(key), now + ExpireHours(expire_hours))
              /\ latest' = [latest EXCEPT ![key] =
                              [value |-> value, set_at |-> now,
                               hours |-> IF expire_hours = 0 THEN default_expire_hours
                                         ELSE expire_hours]]
         ELSE UNCHANGED <<memory_cache, memory_cache_expiry, latest>>
      /\ UNCHANGED <<now, ticks>>
      /\ UNCHANGED notCacheVars

CacheDelete ==
    \E key \in CacheKeyNames :
      /\ cacheCall' = [op |-> "delete", key |-> key, at |-> now]
      /\ cacheReturned' = (GetKey(key) \in DOMAIN memory_cache)
      /\ memory_cache' = Pop(memory_cache, GetKey(key))
      /\ memory_cache_expiry' = Pop(memory_cache_expiry, GetKey(key))
      /\ latest' = [latest EXCEPT ![key] = None]
      /\ UNCHANGED <<now, ticks>>
      /\ UNCHANGED notCacheVars

CacheExists ==
    \E key \in CacheKeyNames :
      /\ cacheCall' = [op |-> "exists", key |-> key, at |-> now]
      /\ cacheReturned' = IsLive(memory_cache, memory_cache_expiry, now, GetKey(key))
      /\ memory_cache' = DropExpired(memory_cache, memory_cache,
                                     memory_cache_expiry, now, GetKey(key))
      /\ memory_cache_expiry' = DropExpired(memory_cache_expiry, memory_cache,
                                            memory_cache_expiry, now, GetKey(key))
      /\ UNCHANGED <<now, ticks, latest>>
      /\ UNCHANGED notCacheVars

CleanupExpired ==
    /\ cacheCall' = [op |-> "cleanup_expired", key |-> "", at |-> now]
    /\ cacheReturned' = Cardinality(ExpiredKeys(memory_cache_expiry, now))
    /\ memory_cache' = Without(memory_cache, ExpiredKeys(memory_cache_expiry, now))
    /\ memory_cache_expiry' =
         Without(memory_cache_expiry, ExpiredKeys(memory_cache_expiry, now))
    /\ UNCHANGED <<now, ticks, latest>>
    /\ UNCHANGED notCacheVars

\* Time passes between two calls.
Tick ==
    /\ ticks < MaxTicks
    /\ \E hours \in TickHours : now' = now + hours
    /\ ticks' = ticks + 1
    /\ UNCHANGED <<memory_cache, memory_cache_expiry, latest, cacheCall, cacheReturned>>
    /\ UNCHANGED notCacheVars

CacheNext ==
    CacheGet \/ CacheSet \/ CacheDelete \/ CacheExists \/ CleanupExpired \/ Tick

SpecCache == CacheInit /\ [][CacheNext]_vars

(***************************************************************************)
(* SpecLabel: _calculate_label_and_confidence as a pure function           *)
(***************************************************************************)
MaxEvidence == 10

LabelInit ==
    /\ lcScore \in 0..SCORE_CAP
    /\ lcCount \in 0..MaxEvidence
    /\ lcOut = NoOutput
    /\ RulesIdle /\ NormIdle /\ ParserIdle /\ BatteryIdle /\ SchemaIdle /\ AiIdle /\ BatchIdle /\ CacheIdle

LabelApply ==
    /\ lcOut = NoOutput
    /\ lcOut' = CalculateLabelAndConfidence(lcScore, lcCount)
    /\ UNCHANGED <<lcScore, lcCount>>
    /\ UNCHANGED notLabelVars

LabelNext == LabelApply

SpecLabel == LabelInit /\ [][LabelNext]_vars

(***************************************************************************)
(* services/parser.py: URLs.  A URL is a sequence of symbols: single        *)
(* characters, and the atomic chunks "http", "https" (the scheme), a host   *)
(* label ("a", "A", "xn--p1ai", ...) and a query key ("utm_source", ...).   *)
(* URL_REGEX matches no "#", no "[" handling is needed for the hosts used,  *)
(* and urlparse raises for none of these inputs.                            *)
(***************************************************************************)
NoUrl == <<"(no url)">>

TRACKING_PARAMS ==
    {"utm_source", "utm_medium", "utm_campaign", "utm_term", "utm_content",
     "fbclid", "gclid", "msclkid", "_ga", "mc_cid", "mc_eid"}

\* str.lower() on a URL symbol.
LowerSym(c) ==
    CASE c = "A" -> "a"
      [] c = "XN--P1AI" -> "xn--p1ai"
      [] c = "UTM_SOURCE" -> "utm_source"
      [] c = "F" -> "f"
      [] c = "R" -> "r" [] c = "S" -> "s" [] c = "U" -> "u"
      [] OTHER -> c

LowerUrl(s) == [i \in 1..Len(s) |-> LowerSym(s[i])]

\* Index of the first symbol of s that is in set C, or 0.
FindFirst(s, C) ==
    IF \E i \in 1..Len(s) : s[i] \in C
    THEN CHOOSE i \in 1..Len(s) : s[i] \in C /\ \A j \in 1..(i-1) : s[j] \notin C
    ELSE 0

\* Index of the last symbol of s that is in set C, or 0.
FindLast(s, C) ==
    IF \E i \in 1..Len(s) : s[i] \in C
    THEN CHOOSE i \in 1..Len(s) : s[i] \in C /\ \A j \in (i+1)..Len(s) : s[j] \notin C
    ELSE 0

Before(s, i) == SubSeq(s, 1, i - 1)
After(s, i) == SubSeq(s, i + 1, Len(s))

\* Symbols a URL scheme may consist of.
SchemeSyms == {"http", "https"}

\* s.split(sep, 1) as a pair: what is before the first sep and what is after
\* it (empty when there is no sep).
SplitOnFirst(s, sep) ==
    LET i == FindFirst(s, {sep})
    IN IF i = 0 THEN <<s, <<>>>> ELSE <<Before(s, i), After(s, i)>>

\* urlsplit: the scheme is what precedes the first ":" when it is made of
\* scheme characters; it is lower-cased.  Gives <<scheme, rest>>.
SplitScheme(url) ==
    LET colon == FindFirst(url, {":"})
    IN IF colon > 1 /\ \A i \in 1..(colon - 1) : url[i] \in SchemeSyms
       THEN <<LowerUrl(Before(url, colon)), After(url, colon)>>
       ELSE << <<>>, url >>

\* _splitnetloc(url, 2): the netloc runs to the first of "/?#".
SplitAtDelim(r) ==
    LET delim == FindFirst(r, {"/", "?", "#"})
    IN IF delim = 0 THEN <<r, <<>>>> ELSE <<Before(r, delim), SubSeq(r, delim, Len(r))>>

\* if url[:2] == "//": netloc, url = _splitnetloc(url, 2).  <<netloc, rest>>.
SplitNetloc(r) ==
    IF Len(r) >= 2 /\ r[1] = "/" /\ r[2] = "/"
    THEN SplitAtDelim(After(r, 2))
    ELSE << <<>>, r >>

\* _splitparams: the params follow the first ";" of the last path segment.
SplitParams(p) ==
    LET slash == FindLast(p, {"/"})
        semi == FindFirst(After(p, slash), {";"})
    IN IF semi = 0 THEN <<p, <<>>>>
       ELSE <<Before(p, slash + semi), After(p, slash + semi)>>

UrlParseQuery(scheme, netloc, fragment, pq) ==
    [scheme |-> scheme, netloc |-> netloc,
     path |-> SplitParams(pq[1])[1], params |-> SplitParams(pq[1])[2],
     query |-> pq[2], fragment |-> fragment]

UrlParseFragment(scheme, netloc, uf) ==
    UrlParseQuery(scheme, netloc, uf[2], SplitOnFirst(uf[1], "?"))

UrlParseNetloc(scheme, nr) ==
    UrlParseFragment(scheme, nr[1], SplitOnFirst(nr[2], "#"))

UrlParseScheme(sr) == UrlParseNetloc(sr[1], SplitNetloc(sr[2]))

\* urllib.parse.urlparse: scheme up to the first ":", netloc after "//" up to
\* the first of "/?#", then fragment after the first "#", query after the
\* first "?", and params after the first ";" of the last path segment.
UrlParse(url) == UrlParseScheme(SplitScheme(url))

\* The hexadecimal digits among the symbols of a path.
HexDigits == {"2", "3", "5", "F"}

\* The character %XY stands for; a byte that is no UTF-8 text decodes, with
\* errors="replace", to U+FFFD.
Unhex(x, y) ==
    CASE x = "2" /\ y = "2" -> "\""
      [] x = "2" /\ y = "3" -> "#"
      [] x = "2" /\ y = "5" -> "%"
      [] x = "2" /\ y = "F" -> "/"
      [] x = "3" /\ y = "2" -> "2"
      [] x = "3" /\ y = "3" -> "3"
      [] x = "3" /\ y = "5" -> "5"
      [] x = "3" /\ y = "F" -> "?"
      [] x = "5" /\ y = "2" -> "R"
      [] x = "5" /\ y = "3" -> "S"
      [] x = "5" /\ y = "5" -> "U"
      [] x = "5" /\ y = "F" -> "_"
      [] OTHER -> "U+FFFD"

RECURSIVE Unquote(_)
\* urllib.parse.unquote: every %XY with two hex digits is replaced by its
\* character; any other "%" stays.
Unquote(p) ==
    IF p = <<>> THEN <<>>
    ELSE IF Len(p) >= 3 /\ p[1] = "%" /\ p[2] \in HexDigits /\ p[3] \in HexDigits
         THEN <<Unhex(p[2], p[3])>> \o Unquote(SubSeq(p, 4, Len(p)))
         ELSE <<p[1]>> \o Unquote(Tail(p))

\* A host label in punycode, and what the idna codec decodes it to.
IsPunycode(c) == c = "xn--p1ai"
PunycodeDecode(c) == IF c = "xn--p1ai" THEN "U+0440 U+0444" ELSE c

\* if domain.startswith("xn--") or ".xn--" in domain:
\*     domain = domain.encode("ascii").decode("idna")
DecodeIdna(domain) ==
    IF \E i \in 1..Len(domain) :
          IsPunycode(domain[i]) /\ (i = 1 \/ domain[i - 1] = ".")
    THEN [i \in 1..Len(domain) |-> PunycodeDecode(domain[i])]
    ELSE domain

RECURSIVE Split(_, _)
\* str.split(sep)
Split(s, sep) ==
    LET i == FindFirst(s, {sep})
    IN IF i = 0 THEN <<s>> ELSE <<Before(s, i)>> \o Split(After(s, i), sep)

RECURSIVE Join(_, _)
\* sep.join(parts)
Join(parts, sep) ==
    IF parts = <<>> THEN <<>>
    ELSE IF Len(parts) = 1 THEN parts[1]
    ELSE parts[1] \o <<sep>> \o Join(Tail(parts), sep)

\* Whether the loop over the query parameters keeps a parameter.
KeepParam(param) ==
    IF "=" \in Range(param)
    THEN LET key == LowerUrl(Split(param, "=")[1])
         IN ~(Len(key) = 1 /\ key[1] \in TRACKING_PARAMS)
    ELSE TRUE

\* The tracking-parameter filter of _normalize_url, giving clean_query.
CleanQuery(query) ==
    IF query # <<>> /\ SelectSeq(Split(query, "&"), KeepParam) # <<>>
    THEN Join(SelectSeq(Split(query, "&"), KeepParam), "&")
    ELSE <<>>

\* path = unquote(parsed.path)
NormalizePath(path) == Unquote(path)

\* domain = parsed.netloc.lower(), then the punycode decoding.
NormalizeDomain(netloc) == DecodeIdna(LowerUrl(netloc))

\* normalized = f"{scheme}://{domain}{path}", then "?" and the clean query
\* if there is one, then "#" and the fragment if there is one.
Rebuild(parsed, clean_query) ==
    parsed.scheme \o <<":", "/", "/">> \o NormalizeDomain(parsed.netloc)
    \o NormalizePath(parsed.path)
    \o (IF clean_query # <<>> THEN <<"?">> \o clean_query ELSE <<>>)
    \o (IF parsed.fragment # <<>> THEN <<"#">> \o parsed.fragment ELSE <<>>)

NormalizeParsed(parsed) == Rebuild(parsed, CleanQuery(parsed.query))

\* EmailParser._normalize_url
NormalizeUrl(url) == NormalizeParsed(UrlParse(url))

(***************************************************************************)
(* SpecNorm: _normalize_url as a pure function, over URLs URL_REGEX matches *)
(***************************************************************************)
MaxTail == 4

\* Scheme and host of the URLs: a plain host, a mixed-case host with a
\* punycode label, and an upper-case punycode host.
Origins ==
    { <<"http", ":", "/", "/", "a">>,
      <<"https", ":", "/", "/", "A", ".", "xn--p1ai">>,
      <<"http", ":", "/", "/", "XN--P1AI">> }
TailSyms == {"/", "?", "=", "&", "%", "2", "5", "3", "F", "x", "UTM_SOURCE"}

\* What follows the host: nothing, or a path or query of at most MaxTail
\* symbols.
Tails ==
    {<<>>} \cup {<<c>> \o t : c \in {"/", "?"}, t \in SeqsUpTo(TailSyms, MaxTail - 1)}

NormUrls == { o \o t : o \in Origins, t \in Tails }

NormInit ==
    /\ nUrl \in NormUrls
    /\ nOnce = NoUrl
    /\ nTwice = NoUrl
    /\ RulesIdle /\ LabelIdle /\ ParserIdle /\ BatteryIdle /\ SchemaIdle /\ AiIdle /\ BatchIdle /\ CacheIdle

NormOnce ==
    /\ nOnce = NoUrl
    /\ nOnce' = NormalizeUrl(nUrl)
    /\ UNCHANGED <<nUrl, nTwice>>
    /\ UNCHANGED notNormVars

NormTwice ==
    /\ nOnce # NoUrl /\ nTwice = NoUrl
    /\ nTwice' = NormalizeUrl(nOnce)
    /\ UNCHANGED <<nUrl, nOnce>>
    /\ UNCHANGED notNormVars

NormNext == NormOnce \/ NormTwice

SpecNorm == NormInit /\ [][NormNext]_vars

(***************************************************************************)
(* services/parser.py: EmailParser.parse_email.                            *)
(* A string (a header value, a part's content, a body) is kept as its      *)
(* length, the number of whitespace characters at its end, and the matches *)
(* URL_REGEX finds in it, in order.  The matches are listed as runs: a run *)
(* [host, lo, hi, tail, start, end] stands for the matches                 *)
(* http://host/<k><tail> for k = lo..hi, lying between the offsets start   *)
(* and end.  No run straddles an offset at which the code cuts a string.   *)
(* The position and context fields of a ParsedURL and parse_time_ms are    *)
(* left out.                                                               *)
(***************************************************************************)
MAX_PARSED_TEXT_SIZE == 1048576
MAX_PARSE_TIME == 30
MAX_URLS_PER_EMAIL == 500
MAX_HEADER_SIZE == 65536
MAX_RAW_SIZE == 26214400
MAX_RECEIVED == 20
MAX_RECEIVED_LEN == 1000

Str(len, pad, urls) == [len |-> len, pad |-> pad, urls |-> urls]
EmptyStr == Str(0, 0, <<>>)
Newline == Str(1, 1, <<>>)

Run(host, lo, hi, tail, start, end) ==
    [host |-> host, lo |-> lo, hi |-> hi, tail |-> tail, start |-> start, end |-> end]

\* The run r, in a string that follows n other characters.
ShiftRun(r, n) == [r EXCEPT !.start = @ + n, !.end = @ + n]

\* a + b on strings.
ConcatStr(a, b) ==
    [len |-> a.len + b.len,
     pad |-> IF b.pad = b.len THEN a.pad + b.len ELSE b.pad,
     urls |-> a.urls \o [i \in 1..Len(b.urls) |-> ShiftRun(b.urls[i], a.len)]]

\* s[:n]
Truncate(s, n) ==
    IF s.len <= n THEN s
    ELSE [len |-> n,
          pad |-> Max(0, s.pad - (s.len - n)),
          urls |-> SelectSeq(s.urls, LAMBDA r : r.end <= n)]

\* _clean_text_content and the strip() of _clean_header_value: the strings
\* of the model are in NFKC form, have no control characters, and have
\* whitespace to remove at their end only.
CleanText(s) == IF s.len = 0 THEN EmptyStr ELSE [s EXCEPT !.len = @ - s.pad, !.pad = 0]

\* The k-th match of a run.
GenUrl(r, k) == <<"http", ":", "/", "/", r.host, "/", ToString(k)>> \o r.tail

RunMatches(r) == [i \in 1..(r.hi - r.lo + 1) |-> GenUrl(r, r.lo + i - 1)]

\* URL_REGEX.finditer(content): the matched texts, in order.
FindUrls(content) == Concat([i \in 1..Len(content.urls) |-> RunMatches(content.urls[i])])

\* --- _extract_headers: safe_header ---
HeaderTooLong(value) == value.len > MAX_HEADER_SIZE

SafeHeader(value) == CleanText(Truncate(value, MAX_HEADER_SIZE))

HeaderWarnings(name, value) ==
    IF HeaderTooLong(value) THEN <<"Header '" \o name \o "' truncated">> ELSE <<>>

\* Mutant of ReceivedLimitReached: the limit is tested with > instead of >=.
ReceivedLimitReached_Above(n) == n > MAX_RECEIVED

\* if len(received_headers) >= 20: break
ReceivedLimitReached(n) == n >= MAX_RECEIVED

\* One iteration of the loop over msg.get_all("Received", []).
KeepReceived(received_headers, received) ==
    IF ReceivedLimitReached(Len(received_headers)) THEN received_headers
    ELSE Append(received_headers, Truncate(CleanText(received), MAX_RECEIVED_LEN))

RECURSIVE ReceivedHeaders(_, _)
\* The loop over the Received headers of the message; after the break
\* nothing is appended.
ReceivedHeaders(all, received_headers) ==
    IF all = <<>> THEN received_headers
    ELSE ReceivedHeaders(Tail(all), KeepReceived(received_headers, Head(all)))

\* The headers safe_header is called for.
HeaderNames ==
    {"From", "To", "Reply-To", "Return-Path", "Subject", "Date",
     "Authentication-Results", "Message-ID"}

\* The value of a header other than Subject and Return-Path, when the
\* message has it: for the address headers, a name and an address.
PlainHeader == Str(24, 0, <<>>)

\* msg.get(header_name, ""): the default "" for a header the message lacks.
MsgGet(msg, header_name) ==
    IF header_name \in msg.absent THEN EmptyStr
    ELSE CASE header_name = "Subject" -> msg.subject
           [] header_name = "Return-Path" -> msg.return_path
           [] OTHER -> PlainHeader

\* Mutant of ParseAddress: no pair of empty strings for an empty header.
ParseAddress_None(addr_str) == [display |-> None, addr |-> None]

\* parse_address: ("", "") for an empty header, else the display name and
\* the address email.utils.parseaddr finds (here a third of the header and
\* the rest less " <>"), each cleaned.
ParseAddress(addr_str) ==
    IF addr_str.len = 0 THEN [display |-> EmptyStr, addr |-> EmptyStr]
    ELSE [display |-> CleanText(Str(addr_str.len \div 3, 0, <<>>)),
          addr |-> CleanText(Str(Max(0, addr_str.len - addr_str.len \div 3 - 3),
                                 0, <<>>))]

\* ParsedHeaders(...) as _extract_headers builds it; warnings in the order
\* of the safe_header calls that can truncate (Return-Path before Subject;
\* the other headers of the model are short).
ExtractHeaders(msg) ==
    [headers |-> [from_addr |-> ParseAddress(SafeHeader(MsgGet(msg, "From"))).addr,
                  from_display |->
                      ParseAddress(SafeHeader(MsgGet(msg, "From"))).display,
                  to_addr |-> ParseAddress(SafeHeader(MsgGet(msg, "To"))).addr,
                  reply_to |-> ParseAddress(SafeHeader(MsgGet(msg, "Reply-To"))).addr,
                  return_path |-> SafeHeader(MsgGet(msg, "Return-Path")),
                  subject |-> SafeHeader(MsgGet(msg, "Subject")),
                  date |-> SafeHeader(MsgGet(msg, "Date")),
                  received |-> ReceivedHeaders(msg.received, <<>>),
                  authentication_results |->
                      SafeHeader(MsgGet(msg, "Authentication-Results")),
                  message_id |-> SafeHeader(MsgGet(msg, "Message-ID"))],
     warnings |-> HeaderWarnings("Return-Path", MsgGet(msg, "Return-Path"))
                  \o HeaderWarnings("Subject", MsgGet(msg, "Subject"))]

\* --- _extract_body ---
BodyStart == [text_body |-> EmptyStr, html_body |-> EmptyStr, warnings |-> <<>>]

\* The size check of a part of a multipart message.
PartContent(part) == Truncate(part.payload, MAX_PARSED_TEXT_SIZE)

PartWarnings(part) ==
    IF part.payload.len > MAX_PARSED_TEXT_SIZE
    THEN <<"Part content truncated: " \o part.content_type>>
    ELSE <<>>

\* One iteration of the loop over msg.walk().
WalkPart(acc, part) ==
    IF part.raises
    THEN [acc EXCEPT !.warnings = Append(@, "Failed to decode part " \o part.content_type)]
    ELSE IF part.payload.len = 0 THEN acc
    ELSE [text_body |-> IF part.content_type = "text/plain"
                        THEN ConcatStr(ConcatStr(acc.text_body, PartContent(part)), Newline)
                        ELSE acc.text_body,
          html_body |-> IF part.content_type = "text/html"
                        THEN ConcatStr(ConcatStr(acc.html_body, PartContent(part)), Newline)
                        ELSE acc.html_body,
          warnings |-> acc.warnings \o PartWarnings(part)]

RECURSIVE WalkParts(_, _)
WalkParts(parts, acc) ==
    IF parts = <<>> THEN acc ELSE WalkParts(Tail(parts), WalkPart(acc, Head(parts)))

\* The else branch: a single part message; its content is not size checked.
SinglePart(part) ==
    IF part.raises
    THEN [BodyStart EXCEPT !.warnings = <<"Failed to decode single part">>]
    ELSE [text_body |-> IF part.content_type = "text/plain" THEN part.payload ELSE EmptyStr,
          html_body |-> IF part.content_type = "text/html" THEN part.payload ELSE EmptyStr,
          warnings |-> <<>>]

RawBodies(msg) ==
    IF msg.multipart THEN WalkParts(msg.parts, BodyStart) ELSE SinglePart(msg.parts[1])

\* What html2text makes of an HTML body: it raises, or gives a text.
HtmlRenderings == {"raises", "short", "long"}

HtmlAsText(html_body, rendering) ==
    IF html_body.len = 0 \/ rendering = "raises" THEN EmptyStr
    ELSE IF rendering = "short" THEN Str(Min(html_body.len, 60), 0, <<>>)
    ELSE Str(html_body.len, 0, <<>>)

\* Whether self.html_parser.handle(html_body) is called and raises.
HtmlRaises(html_body, rendering) == html_body.len > 0 /\ rendering = "raises"

\* What the step records of the conversion, for the history pSteps.
HtmlEvents(html_body, rendering) ==
    IF HtmlRaises(html_body, rendering) THEN <<"html2text_raised">> ELSE <<>>

\* Mutant of HtmlWarnings: a failed conversion is not recorded.
HtmlWarnings_None(html_body, rendering) == <<>>

HtmlWarnings(html_body, rendering) ==
    IF html_body.len > 0 /\ rendering = "raises"
    THEN <<"HTML to text conversion failed">>
    ELSE <<>>

\* The conversion of the HTML body and the cleaning of the text body.
FinishBody(raw, rendering) ==
    [text_body |-> CleanText(raw.text_body),
     html_body |-> raw.html_body,
     html_as_text |-> HtmlAsText(raw.html_body, rendering),
     warnings |-> raw.warnings \o HtmlWarnings(raw.html_body, rendering)]

ExtractBody(msg, rendering) == FinishBody(RawBodies(msg), rendering)

\* --- _extract_urls ---
SearchContexts(headers, body) ==
    <<body.text_body, body.html_body, headers.subject, headers.return_path>>

NumContexts == 4

\* ParsedURL(original, normalized, domain = urlparse(normalized).netloc.lower(),
\* path = urlparse(normalized).path)
ParsedURL(original, normalized, parsed) ==
    [original |-> original, normalized |-> normalized,
     domain |-> LowerUrl(parsed.netloc), path |-> parsed.path]

\* Mutant of AtUrlLimit: the limit is tested with > instead of >=.
AtUrlLimit_Above(n) == n > MAX_URLS_PER_EMAIL

\* if len(urls) >= MAX_URLS_PER_EMAIL
AtUrlLimit(n) == n >= MAX_URLS_PER_EMAIL

\* Mutant of IsDuplicate: the set is searched for the original URL.
IsDuplicate_Original(original, normalized, url_set) == original \in url_set

\* if normalized_url in url_set
IsDuplicate(original, normalized, url_set) == normalized \in url_set

\* The rest of the loop body once the URL is normalized.
KeepUrl(st, original, normalized) ==
    IF IsDuplicate(original, normalized, st.url_set) THEN st
    ELSE [st EXCEPT !.url_set = @ \cup {normalized},
                    !.urls = Append(@, ParsedURL(original, normalized,
                                                 UrlParse(normalized)))]

\* Mutant of ScanMatch: the loop stops at the limit without a warning.
ScanMatch_Quiet(st, original) ==
    IF st.stopped THEN st
    ELSE IF AtUrlLimit(Len(st.urls)) THEN [st EXCEPT !.stopped = TRUE]
    ELSE KeepUrl(st, original, NormalizeUrl(original))

\* One iteration of the loop over the matches of a context; after the break
\* there is none.
ScanMatch(st, original) ==
    IF st.stopped THEN st
    ELSE IF AtUrlLimit(Len(st.urls))
    THEN [st EXCEPT !.warnings = Append(@, "URL limit reached: 500"),
                    !.stopped = TRUE]
    ELSE KeepUrl(st, original, NormalizeUrl(original))

RECURSIVE ScanRange(_, _, _, _)
\* The loop over the matches lo..hi, in order (the first half of the range,
\* then the second).
ScanRange(matches, lo, hi, st) ==
    IF st.stopped \/ lo > hi THEN st
    ELSE IF lo = hi THEN ScanMatch(st, matches[lo])
    ELSE ScanRange(matches, (lo + hi) \div 2 + 1, hi,
                   ScanRange(matches, lo, (lo + hi) \div 2, st))

\* The body of the loop over search_contexts for one context.
ScanContent(content, urls, url_set, warnings) ==
    IF content.len = 0
    THEN [urls |-> urls, url_set |-> url_set, warnings |-> warnings, stopped |-> FALSE]
    ELSE ScanRange(FindUrls(content), 1, Len(FindUrls(content)),
                   [urls |-> urls, url_set |-> url_set, warnings |-> warnings,
                    stopped |-> FALSE])

\* --- parse_email: the metrics, the size check and the return ---
ParsedSize(body) == body.text_body.len + body.html_body.len

TooMuchParsed(body) == ParsedSize(body) > MAX_PARSED_TEXT_SIZE

FinalText(body) ==
    IF TooMuchParsed(body)
    THEN Truncate(body.text_body, MAX_PARSED_TEXT_SIZE \div 2)
    ELSE body.text_body

FinalHtmlAsText(body) ==
    IF TooMuchParsed(body)
    THEN Truncate(body.html_as_text, MAX_PARSED_TEXT_SIZE \div 2)
    ELSE body.html_as_text

\* Mutant of FinalWarnings: the truncation of the bodies is not recorded.
FinalWarnings_Silent(body, warnings) == warnings

FinalWarnings(body, warnings) ==
    IF TooMuchParsed(body) THEN Append(warnings, "Parsed content truncated") ELSE warnings

ParsedEmail(msg, headers, body, urls, warnings) ==
    [outcome |-> "returned",
     headers |-> headers,
     text_body |-> FinalText(body),
     html_body |-> body.html_body,
     html_as_text |-> FinalHtmlAsText(body),
     urls |-> urls,
     security_warnings |-> FinalWarnings(body, warnings),
     raw_size |-> msg.raw_size,
     parsed_size |-> ParsedSize(body)]

\* raise EmailParsingError(...), as the except clause of parse_email re-raises it.
EmailParsingError(message) ==
    [outcome |-> "EmailParsingError", message |-> "Failed to parse email: " \o message]

\* An exception: its class and its message.
Exc(type, message) == [type |-> type, message |-> message]

\* What the try block of _parse_with_timeout raises for an email it fails
\* on: the error of email.message_from_bytes, or the timeout.
MimeFailure(msg) ==
    IF msg.mime_error THEN Exc("ValueError", "invalid MIME structure")
    ELSE Exc("EmailParsingError", "Parsing timeout exceeded")

\* _parse_with_timeout: except Exception as e:
\*     raise EmailParsingError(f"MIME parsing failed: {str(e)}")
ParseWithTimeoutExcept(e) ==
    Exc("EmailParsingError", "MIME parsing failed: " \o e.message)

\* What msg.get_all("Received", []) raises on headers the email package
\* fails on.
HeaderFailure == Exc("IndexError", "header access failed")

\* Mutant of ParseEmailExcept: the exception leaves parse_email as it is.
ParseEmailExcept_Reraise(e) == [outcome |-> e.type, message |-> e.message]

\* parse_email: except Exception as e:
\*     raise EmailParsingError(f"Failed to parse email: {str(e)}")
ParseEmailExcept(e) == EmailParsingError(e.message)

(***************************************************************************)
(* SpecParser: parse_email on one raw email, a step at a time              *)
(***************************************************************************)
MaxParts == 2
MaxReceived == 22
MaxOver == 20

TrackingTail == <<"?", "UTM_SOURCE", "=", "x">>

\* A short text: two URLs, then the first again with an upper-case host and
\* the second again with a tracking parameter.
SmallText ==
    Str(120, 1, <<Run("a", 1, 2, <<>>, 10, 40), Run("A", 1, 1, <<>>, 50, 62),
                  Run("a", 2, 2, TrackingTail, 70, 100)>>)
\* A body of exactly the maximum parsed size.
ExactText == Str(MAX_PARSED_TEXT_SIZE, 0, <<Run("b", 7, 7, <<>>, 100, 112)>>)
\* A body of twice the maximum parsed size, with a URL in its second half.
HugeText ==
    Str(2 * MAX_PARSED_TEXT_SIZE, 0,
        <<Run("a", 2, 4, <<>>, 10, 60), Run("b", 1, 1, <<>>, 2000000, 2000012)>>)
\* Bodies with as many as, and with more distinct URLs than, the URL limit.
LimitText == Str(20000, 0, <<Run("a", 1, MAX_URLS_PER_EMAIL, <<>>, 0, 19000)>>)
ManyText == Str(20000, 0, <<Run("a", 1, MAX_URLS_PER_EMAIL + MaxOver, <<>>, 0, 19000)>>)
HalfText == Str(9000, 0, <<Run("a", 1, 300, <<>>, 0, 8900)>>)
OtherHalfText == Str(9500, 0, <<Run("A", 250, MAX_URLS_PER_EMAIL + MaxOver, <<>>, 0, 9400)>>)

Part(content_type, payload, raises) ==
    [content_type |-> content_type, payload |-> payload, raises |-> raises]

LightParts ==
    {Part(t, c, FALSE) : t \in {"text/plain", "text/html"},
                         c \in {SmallText, ExactText, HugeText}}
    \cup {Part("application/pdf", Str(500, 0, <<>>), FALSE),
          Part("text/plain", SmallText, TRUE),
          Part("text/html", EmptyStr, FALSE)}

Subjects ==
    {EmptyStr,
     Str(30, 0, <<Run("a", 1, 1, <<>>, 5, 17)>>),
     Str(MAX_HEADER_SIZE + 100, 0,
         <<Run("c", 1, 1, <<>>, 5, 17),
           Run("c", 2, 2, <<>>, MAX_HEADER_SIZE + 10, MAX_HEADER_SIZE + 22)>>)}

ReturnPaths == {EmptyStr, Str(20, 0, <<Run("d", 1, 1, <<>>, 1, 13)>>)}

RECURSIVE SumLen(_)
SumLen(parts) ==
    IF parts = <<>> THEN 0 ELSE Head(parts).payload.len + SumLen(Tail(parts))

\* A raw email whose MIME structure parses.
Message(multipart, parts, subject, return_path) ==
    [raw_size |-> 200 + SumLen(parts) + subject.len + return_path.len,
     mime_error |-> FALSE, mime_seconds |-> 0,
     header_error |-> FALSE, received |-> <<>>, absent |-> {},
     multipart |-> multipart, parts |-> parts,
     subject |-> subject, return_path |-> return_path]

LightMessages ==
    {Message(FALSE, <<p>>, s, r) : p \in LightParts, s \in Subjects, r \in ReturnPaths}
    \cup {Message(TRUE, ps, s, r) :
              ps \in SeqsUpTo(LightParts, MaxParts), s \in Subjects, r \in ReturnPaths}

\* Emails with hundreds of URLs.
BulkMessages ==
    {Message(FALSE, <<Part("text/plain", ManyText, FALSE)>>, s, r) :
         s \in Subjects, r \in ReturnPaths}
    \cup {Message(TRUE, <<Part("text/plain", HalfText, FALSE),
                         Part("text/html", OtherHalfText, FALSE)>>, EmptyStr, r) :
              r \in ReturnPaths}
    \cup {Message(FALSE, <<Part("text/html", LimitText, FALSE)>>, s, EmptyStr) :
              s \in Subjects}

\* Emails parse_email gives up on: too large, not parsable, too slow to parse.
BadMessages ==
    {[Message(FALSE, <<Part("text/plain", SmallText, FALSE)>>, EmptyStr, EmptyStr)
        EXCEPT !.raw_size = sz, !.mime_error = err, !.mime_seconds = secs] :
       sz \in {MAX_RAW_SIZE, MAX_RAW_SIZE + 1}, err \in BOOLEAN,
       secs \in {MAX_PARSE_TIME, MAX_PARSE_TIME + 1}}

\* Emails with 0..MaxReceived Received headers, the third one longer than
\* MAX_RECEIVED_LEN; the i-th is told from the others by its length.
ReceivedMessages ==
    {[Message(FALSE, <<Part("text/plain", SmallText, FALSE)>>, EmptyStr, EmptyStr)
        EXCEPT !.received =
            [i \in 1..n |-> IF i = 3 THEN Str(MAX_RECEIVED_LEN + 50, 0, <<>>)
                            ELSE Str(100 + i, 2, <<>>)]] :
       n \in 0..MaxReceived}

\* Emails whose headers the email package fails on.
HeaderErrorMessages ==
    {[Message(FALSE, <<Part("text/plain", SmallText, FALSE)>>, s, EmptyStr)
        EXCEPT !.header_error = TRUE] : s \in Subjects}

\* Emails that lack some or all of the headers safe_header is called for.
HeaderlessMessages ==
    {[Message(FALSE, <<Part("text/plain", SmallText, FALSE)>>,
              Str(30, 0, <<>>), Str(20, 0, <<>>))
        EXCEPT !.absent = a] :
       a \in {HeaderNames, {"From", "Subject"}, {"Reply-To", "Date", "Message-ID"},
              {"To", "Return-Path", "Authentication-Results"}}}

Messages ==
    LightMessages \cup BulkMessages \cup BadMessages \cup ReceivedMessages
    \cup HeaderErrorMessages \cup HeaderlessMessages

ParserInit ==
    /\ pMsg \in Messages
    /\ pc = "start"
    /\ pHeaders = NoOutput /\ pBody = NoOutput
    /\ pUrls = <<>> /\ pUrlSet = {} /\ pCtx = 0 /\ pWarnings = <<>>
    /\ pResult = NoResult /\ pSteps = <<>>
    /\ RulesIdle /\ LabelIdle /\ NormIdle /\ BatteryIdle /\ SchemaIdle /\ AiIdle /\ BatchIdle /\ CacheIdle

\* Mutant of TooLarge: no raw size is refused.
TooLarge_Never(raw_size) == FALSE

\* if raw_size > 25 * 1024 * 1024
TooLarge(raw_size) == raw_size > MAX_RAW_SIZE

\* raw_size = len(email_content); if raw_size > 25 * 1024 * 1024: raise
CheckSize ==
    /\ pc = "start"
    /\ pSteps' = Append(pSteps, "size_check")
    /\ IF TooLarge(pMsg.raw_size)
       THEN /\ pc' = "raised"
            /\ pResult' = ParseEmailExcept(Exc("EmailParsingError", "Email too large"))
       ELSE /\ pc' = "parse"
            /\ UNCHANGED pResult
    /\ UNCHANGED <<pMsg, pHeaders, pBody, pUrls, pUrlSet, pCtx, pWarnings>>
    /\ UNCHANGED notParserVars

\* msg = self._parse_with_timeout(email_content)
ParseWithTimeout ==
    /\ pc = "parse"
    /\ pSteps' = Append(pSteps, "mime_parse")
    /\ IF pMsg.mime_error \/ pMsg.mime_seconds > MAX_PARSE_TIME
       THEN /\ pc' = "raised"
            /\ pResult' = ParseEmailExcept(ParseWithTimeoutExcept(MimeFailure(pMsg)))
       ELSE /\ pc' = "headers"
            /\ UNCHANGED pResult
    /\ UNCHANGED <<pMsg, pHeaders, pBody, pUrls, pUrlSet, pCtx, pWarnings>>
    /\ UNCHANGED notParserVars

\* headers = self._extract_headers(msg, security_warnings)
ExtractHeadersStep ==
    /\ pc = "headers"
    /\ pSteps' = Append(pSteps, "extract_headers")
    /\ IF pMsg.header_error
       THEN /\ pc' = "raised"
            /\ pResult' = ParseEmailExcept(HeaderFailure)
            /\ UNCHANGED <<pHeaders, pWarnings>>
       ELSE /\ pHeaders' = ExtractHeaders(pMsg).headers
            /\ pWarnings' = pWarnings \o ExtractHeaders(pMsg).warnings
            /\ pc' = "body"
            /\ UNCHANGED pResult
    /\ UNCHANGED <<pMsg, pBody, pUrls, pUrlSet, pCtx>>
    /\ UNCHANGED notParserVars

\* text_body, html_body, html_as_text = self._extract_body(msg, security_warnings)
ExtractBodyStep ==
    /\ pc = "body"
    /\ \E rendering \in HtmlRenderings :
          /\ pSteps' = pSteps \o <<"extract_body">>
                        \o HtmlEvents(RawBodies(pMsg).html_body, rendering)
          /\ pBody' = [text_body |-> ExtractBody(pMsg, rendering).text_body,
                       html_body |-> ExtractBody(pMsg, rendering).html_body,
                       html_as_text |-> ExtractBody(pMsg, rendering).html_as_text]
          /\ pWarnings' = pWarnings \o ExtractBody(pMsg, rendering).warnings
    /\ pc' = "urls"
    /\ UNCHANGED <<pMsg, pHeaders, pUrls, pUrlSet, pCtx, pResult>>
    /\ UNCHANGED notParserVars

\* _extract_urls: one iteration of the loop over search_contexts.
ExtractUrlsStep ==
    /\ pc = "urls" /\ pCtx < NumContexts
    /\ pSteps' = IF pCtx = 0 THEN Append(pSteps, "extract_urls") ELSE pSteps
    /\ pUrls' = ScanContent(SearchContexts(pHeaders, pBody)[pCtx + 1],
                            pUrls, pUrlSet, pWarnings).urls
    /\ pUrlSet' = ScanContent(SearchContexts(pHeaders, pBody)[pCtx + 1],
                              pUrls, pUrlSet, pWarnings).url_set
    /\ pWarnings' = ScanContent(SearchContexts(pHeaders, pBody)[pCtx + 1],
                                pUrls, pUrlSet, pWarnings).warnings
    /\ pCtx' = pCtx + 1
    /\ UNCHANGED <<pMsg, pc, pHeaders, pBody, pResult>>
    /\ UNCHANGED notParserVars

\* The metrics, the size check and return ParsedEmail(...).
ReturnParsedEmail ==
    /\ pc = "urls" /\ pCtx = NumContexts
    /\ pSteps' = Append(pSteps, "return")
    /\ pResult' = ParsedEmail(pMsg, pHeaders, pBody, pUrls, pWarnings)
    /\ pc' = "returned"
    /\ UNCHANGED <<pMsg, pHeaders, pBody, pUrls, pUrlSet, pCtx, pWarnings>>
    /\ UNCHANGED notParserVars

ParserNext ==
    \/ CheckSize
    \/ ParseWithTimeout
    \/ ExtractHeadersStep
    \/ ExtractBodyStep
    \/ ExtractUrlsStep
    \/ ReturnParsedEmail

SpecParser == ParserInit /\ [][ParserNext]_vars

(***************************************************************************)
(* Claims about the rule engine (SpecRules, SpecLabel)                     *)
(***************************************************************************)
RECURSIVE SumSeq(_)
SumSeq(ws) == IF ws = <<>> THEN 0 ELSE Head(ws) + SumSeq(Tail(ws))

\* The weight table of the specification's rule battery.
TableWeight(rule) ==
    CASE rule.rule_id = "HEADER_MISMATCH" -> 15
      [] rule.rule_id = "REPLYTO_MISMATCH" -> 10
      [] rule.rule_id = "AUTH_FAIL_HINTS" -> 20
      [] rule.rule_id = "URGENT_LANGUAGE" -> 10
      [] rule.rule_id = "URL_SHORTENER" -> 10
      [] rule.rule_id = "SUSPICIOUS_TLDS" -> 10
      [] rule.rule_id = "UNICODE_SPOOF" -> 10
      [] rule.rule_id = "NO_PERSONALIZATION" -> 5
      [] rule.rule_id = "ATTACHMENT_KEYWORDS" -> 5
      [] OTHER -> rule.weight

Fires(rule) == Check(rule, email, hashSeed).status = "fired"
Raises(rule) == Check(rule, email, hashSeed).status = "raised"

\* The weights of the rules of the battery that fire on the email.
FiredWeights ==
    [i \in 1..Len(rules) |-> IF Fires(rules[i]) THEN TableWeight(rules[i]) ELSE 0]

\* C1: the score analyze_email returns is min(100, sum of the table weights
\* of exactly the rules whose check fired).
C1_ScoreIsCappedSum ==
    result # NoResult => result.score = Min(100, SumSeq(FiredWeights))

\* C1 witness: several rules fired and the cap at 100 cut the sum.
C1_Witness ==
    /\ result # NoResult
    /\ Len(result.evidence) >= 3
    /\ SumSeq(FiredWeights) > 100
    /\ result.score = 100

\* C2: the label is Safe iff score < 30, Suspicious iff 30 <= score < 60,
\* Phishing iff score >= 60, for every score 0..100 and evidence count.
C2_LabelThresholds ==
    lcOut # NoOutput =>
        /\ (lcOut.label = "Likely Safe") <=> (lcScore < 30)
        /\ (lcOut.label = "Suspicious") <=> (30 <= lcScore /\ lcScore < 60)
        /\ (lcOut.label = "Likely Phishing") <=> (lcScore >= 60)

\* C2 witness: the boundary score 60 is labelled Phishing.
C2_Witness ==
    lcOut # NoOutput /\ lcScore = 60 /\ lcOut.label = "Likely Phishing"

\* min(0.95, 0.5 + 0.1 * n), in hundredths.
BaseConfidence(n) == IF 50 + 10 * n < 95 THEN 50 + 10 * n ELSE 95

\* c hundredths is 1.0 - score/30 rounded to two decimals: 30*c is within
\* half a hundredth (15 in 30ths of a hundredth) of 3000 - 100*score.
IsRounded(c, score) ==
    /\ 2 * (30 * c - (3000 - 100 * score)) <= 30
    /\ 2 * ((3000 - 100 * score) - 30 * c) <= 30

\* C16: for every score 0..100 and evidence count n, the confidence is
\* base = min(0.95, 0.5 + 0.1 n) for Phishing (score >= 60), 0.8 * base for
\* Suspicious (30..59), max(0.6, 1.0 - score/30) rounded to two decimals for
\* Safe (score < 30), and it lies in 0.0..1.0.
C16_ConfidenceFormula ==
    lcOut # NoOutput =>
        /\ lcOut.confidence \in 0..100
        /\ lcScore >= 60 => lcOut.confidence = BaseConfidence(lcCount)
        /\ (30 <= lcScore /\ lcScore < 60) =>
              10 * lcOut.confidence = 8 * BaseConfidence(lcCount)
        /\ lcScore < 30 =>
              \/ lcOut.confidence = 60 /\ 100 * lcScore >= 3000 - 30 * 60
              \/ /\ lcOut.confidence >= 60
                 /\ IsRounded(lcOut.confidence, lcScore)

\* C16 witness: a Safe score whose confidence needed rounding (score 10,
\* 1 - 10/30 = 0.667, reported as 0.67).
C16_Witness ==
    /\ lcOut # NoOutput /\ lcScore = 10 /\ lcCount = 6
    /\ lcOut.label = "Likely Safe" /\ lcOut.confidence = 67

\* C3: every result has rules_fired = len(evidence) <= rules_checked, also
\* when some rule raises.
C3_EvidenceCount ==
    result # NoResult =>
        /\ result.rules_fired = Len(result.evidence)
        /\ result.rules_fired <= result.rules_checked

\* C3 witness: a result of a battery in which one rule raised and others fired.
C3_Witness ==
    /\ result # NoResult
    /\ result.failed # <<>>
    /\ result.rules_fired >= 2
    /\ result.rules_fired < result.rules_checked

\* The battery without the rules whose check raises.
RulesNotRaising == SelectSeq(rules, LAMBDA r : ~Raises(r))

\* C4: when a rule's check raises, analyze_email still returns; the rule
\* gives no evidence and no weight (evidence and score are those of the
\* battery without it); every rule of the list was checked, in order; and
\* rules_checked counts the failing rule.
C4_RaisingRuleSkipped ==
    (result # NoResult /\ \E i \in 1..Len(rules) : Raises(rules[i])) =>
        /\ result.outcome = "returned"
        /\ result.checked = [i \in 1..Len(rules) |-> rules[i].rule_id]
        /\ result.rules_checked = Len(rules)
        /\ result.evidence =
               AnalyzeEmailResult(RulesNotRaising, email, hashSeed).evidence
        /\ result.score = AnalyzeEmailResult(RulesNotRaising, email, hashSeed).score
        /\ \A k \in 1..Len(result.evidence) :
               \A i \in 1..Len(rules) :
                   Raises(rules[i]) => result.evidence[k].rule_id # rules[i].rule_id

\* C4 witness: a rule raised in the middle of the battery, a rule after it
\* was checked and fired.
C4_Witness ==
    /\ result # NoResult
    /\ \E i \in 1..Len(rules) :
          /\ Raises(rules[i])
          /\ i < Len(rules)
          /\ Fires(rules[i + 1])
          /\ result.evidence[Len(result.evidence)].rule_id = rules[i + 1].rule_id

\* C5 (as claimed): two evaluations of the same parsed message, in the same
\* or in different runs of the program, give the same score, label and
\* evidence list, details and matched content included.
C5_Deterministic ==
    (result # NoResult /\ prevResult # NoResult) =>
        /\ result.score = prevResult.score
        /\ result.label = prevResult.label
        /\ result.evidence = prevResult.evidence

\* C6 (as claimed): the score is in 0..100 for any message and any battery
\* configured through add_rule / remove_rule.
C6_ScoreInRange ==
    result # NoResult => result.score \in 0..100

\* The label tiers, Safe < Suspicious < Phishing.
Tier(label) ==
    IF label = "Likely Phishing" THEN 2
    ELSE IF label = "Suspicious" THEN 1 ELSE 0

\* The battery without its i-th rule.
WithoutRule(rs, i) == SubSeq(rs, 1, i - 1) \o SubSeq(rs, i + 1, Len(rs))

\* C15 (as claimed): for every rule r that fires on the message, the label
\* tier computed with r in the battery is never lower than the tier computed
\* from the other rules alone.
C15_TierMonotone ==
    result # NoResult =>
        \A i \in 1..Len(rules) :
            Fires(rules[i]) =>
                Tier(result.label)
                    >= Tier(AnalyzeEmailResult(WithoutRule(rules, i), email,
                                               hashSeed).label)

\* The battery holds a rule with that id.
HasRule(id) == \E i \in 1..Len(rules) : rules[i].rule_id = id

\* The result's evidence holds an entry of that rule.
HasEvidence(id) ==
    \E j \in 1..Len(result.evidence) : result.evidence[j].rule_id = id

\* C17 (as claimed): a message whose From display name is "Microsoft Office
\* 365" and whose From address is on an unrelated domain makes
\* HeaderMismatchRule fire: the evidence holds HEADER_MISMATCH with weight 15.
C17_BrandDisplayFires ==
    ( /\ result # NoResult
      /\ HasRule("HEADER_MISMATCH")
      /\ email.headers.from_display = <<"Microsoft", "Office", "365">>
      /\ ExtractDomainFromEmail(email.headers.from_addr) = "paypal.com" ) =>
        \E j \in 1..Len(result.evidence) :
            /\ result.evidence[j].rule_id = "HEADER_MISMATCH"
            /\ result.evidence[j].weight = 15

\* C18 (as claimed): for a message with From on a .top domain, Reply-To on a
\* different domain, spf=fail in Authentication-Results, a bit.ly link as its
\* URL and urgent text, the default battery fires AUTH_FAIL_HINTS,
\* URL_SHORTENER, URGENT_LANGUAGE and SUSPICIOUS_TLDS, the score is >= 60 and
\* the label is Phishing.
C18_TopDomainSenderIsPhishing ==
    ( /\ result # NoResult
      /\ rules = DefaultRules
      /\ TldOf(ExtractDomainFromEmail(email.headers.from_addr)) = ".top"
      /\ ExtractDomainFromEmail(email.headers.reply_to)
            \notin {"", ExtractDomainFromEmail(email.headers.from_addr)}
      /\ "spf=fail" \in Range(email.headers.authentication_results)
      /\ email.urls = << [domain |-> "bit.ly"] >>
      /\ "act now" \in Range(email.text_body) ) =>
        /\ HasEvidence("AUTH_FAIL_HINTS")
        /\ HasEvidence("URL_SHORTENER")
        /\ HasEvidence("URGENT_LANGUAGE")
        /\ HasEvidence("SUSPICIOUS_TLDS")
        /\ result.score >= 60
        /\ result.label = "Likely Phishing"

\* What a result says of a message, whatever the order of its details.
Verdict(r) ==
    [score |-> r.score, label |-> r.label, confidence |-> r.confidence,
     rules_checked |-> r.rules_checked, rules_fired |-> r.rules_fired,
     fired |-> [j \in 1..Len(r.evidence) |->
                  <<r.evidence[j].rule_id, r.evidence[j].weight>>]]

\* The engine holds the default battery, as a new engine does.
DefaultConfiguration == added = 0 /\ Len(rules) = Len(DefaultRules)

\* A step of analyze_email.  The first three conjuncts follow from
\* AnalyzeEmail; they tell the steps of the other operations apart at once.
AnalyzeEmailStep ==
    /\ result' # NoResult /\ prevResult' = result /\ hashSeed' = hashSeed
    /\ AnalyzeEmail

\* C19: analyze_email and the checks it calls leave the ParsedEmail they are
\* given and the rules as they were, and the result of a message does not
\* depend on the messages the engine evaluated before it: it is the result
\* a new engine gives for that message alone.
C19_NoSideEffects ==
    /\ [][AnalyzeEmailStep => (email' = email /\ rules' = rules)]_vars
    /\ []((result # NoResult /\ DefaultConfiguration) =>
            Verdict(result)
                = Verdict(AnalyzeEmailResult(DefaultRules, email, hashSeed)))

\* C19 witness: the engine evaluated a message, then TopDomainEmail, and
\* gave it the result it has alone (score 50).
C19_Witness ==
    /\ email \in Followups /\ result # NoResult /\ rules = DefaultRules
    /\ result.score = 50 /\ result.rules_fired = 4

\* The order of the battery, as claimed.
BatteryOrder ==
    <<"HEADER_MISMATCH", "REPLYTO_MISMATCH", "AUTH_FAIL_HINTS", "URGENT_LANGUAGE",
      "URL_SHORTENER", "SUSPICIOUS_TLDS", "UNICODE_SPOOF", "NO_PERSONALIZATION",
      "ATTACHMENT_KEYWORDS">>

\* The place of a rule id in BatteryOrder, or 0.
PlaceOf(id) ==
    IF \E i \in 1..Len(BatteryOrder) : BatteryOrder[i] = id
    THEN CHOOSE i \in 1..Len(BatteryOrder) : BatteryOrder[i] = id
    ELSE 0

\* C26: for the default battery, the evidence list holds at most one entry
\* per rule, and the entries are in the battery's order HEADER_MISMATCH,
\* REPLYTO_MISMATCH, AUTH_FAIL_HINTS, URGENT_LANGUAGE, URL_SHORTENER,
\* SUSPICIOUS_TLDS, UNICODE_SPOOF, NO_PERSONALIZATION, ATTACHMENT_KEYWORDS.
C26_EvidenceInBatteryOrder ==
    (result # NoResult /\ rules = DefaultRules) =>
        /\ [i \in 1..Len(rules) |-> rules[i].rule_id] = BatteryOrder
        /\ \A j \in 1..Len(result.evidence) :
              PlaceOf(result.evidence[j].rule_id) > 0
        /\ \A j \in 1..(Len(result.evidence) - 1) :
              PlaceOf(result.evidence[j].rule_id)
                  < PlaceOf(result.evidence[j + 1].rule_id)

\* C26 witness: the default battery evaluated a message on which at least
\* five rules fire, the first and the last of the battery among them.
C26_Witness ==
    /\ result # NoResult /\ rules = DefaultRules
    /\ Len(result.evidence) >= 5
    /\ result.evidence[1].rule_id = "HEADER_MISMATCH"
    /\ result.evidence[Len(result.evidence)].rule_id = "ATTACHMENT_KEYWORDS"

\* The messages the battery is tried on after each call.
ProbeEmails ==
    Followups \cup {e \in Emails : /\ e.headers.authentication_results # <<>>
                                  /\ e.headers.reply_to # <<>>
                                  /\ Len(e.urls) = 2}

\* The evidence a rule gives for a message when it is evaluated alone.
EvidenceAlone(rule, e, seed) == AnalyzeEmailResult(<<rule>>, e, seed).evidence

\* The evidence list of a message is, rule by rule in list order, what each
\* rule gives alone, and the score is min(100, sum of the fired weights).
BatteryEvaluatesEachRule(rs, e, seed) ==
    /\ AnalyzeEmailResult(rs, e, seed).evidence
          = Concat([i \in 1..Len(rs) |-> EvidenceAlone(rs[i], e, seed)])
    /\ AnalyzeEmailResult(rs, e, seed).score
          = Min(100, SumSeq([i \in 1..Len(rs) |->
                               SumSeq([j \in 1..Len(EvidenceAlone(rs[i], e, seed)) |->
                                         EvidenceAlone(rs[i], e, seed)[j].weight])]))

\* The list is the list before, without exactly one rule, which has that id.
RemovedExactlyOne(before, after, id) ==
    \E i \in 1..Len(before) :
        before[i].rule_id = id /\ after = WithoutRule(before, i)

\* C25: after any sequence of add_rule and remove_rule calls the evidence of
\* each rule in the list is what the rule gives by itself and the score is
\* min(100, sum of fired weights) over the current list; add_rule appends
\* the rule; remove_rule(id) removes exactly one rule with that id and
\* returns True, or returns False and leaves the list unchanged when no
\* rule has that id.
C25_AddRemoveFrame ==
    /\ \A e \in ProbeEmails : \A seed \in HashSeeds :
          BatteryEvaluatesEachRule(bRules, e, seed)
    /\ (bCall # None /\ bCall.op = "add_rule") =>
          bRules = Append(bBefore, bCall.arg)
    /\ (bCall # None /\ bCall.op = "remove_rule") =>
          IF \E i \in 1..Len(bBefore) : bBefore[i].rule_id = bCall.arg
          THEN bReturned = TRUE /\ RemovedExactlyOne(bBefore, bRules, bCall.arg)
          ELSE bReturned = FALSE /\ bRules = bBefore

\* C25 witness: a rule id held twice was removed once: the list still holds
\* one rule with that id.
C25_Witness ==
    /\ bCall # None /\ bCall.op = "remove_rule" /\ bReturned = TRUE
    /\ Cardinality({i \in 1..Len(bBefore) : bBefore[i].rule_id = bCall.arg}) = 2
    /\ Cardinality({i \in 1..Len(bRules) : bRules[i].rule_id = bCall.arg}) = 1

(***************************************************************************)
(* Claims about the AI response validator (SpecSchema)                     *)
(***************************************************************************)
\* The label of a score's band, as claimed.
BandLabel(score) ==
    IF score >= 70 THEN "Likely Phishing"
    ELSE IF score <= 30 THEN "Likely Safe" ELSE "Suspicious"

\* C24: validate_response accepts a response only if its label is the one
\* of its score band (>= 70 Phishing, <= 30 Safe, 31..69 Suspicious), its
\* score is in 0..100 and its total evidence weight is at most 2 * score.
C24_AcceptedIsConsistent ==
    (vOut # NoOutput /\ vOut.is_valid) =>
        /\ vResponse.conforms
        /\ vResponse.label = BandLabel(vResponse.score)
        /\ vResponse.score \in 0..100
        /\ SumWeights(vResponse.evidence) <= 2 * vResponse.score

\* C24 witness: a response at the boundary score 70 with the Phishing label
\* and evidence weights summing to exactly twice the score was accepted.
C24_Witness ==
    /\ vOut # NoOutput /\ vOut.is_valid
    /\ vResponse.score = 70 /\ vResponse.label = "Likely Phishing"
    /\ vResponse.evidence = <<70, 70>>

(***************************************************************************)
(* Claims about the AI analysis (SpecAI)                                   *)
(***************************************************************************)
\* The attempts of the current analysis that did not give parseable JSON.
FailedAttempts == {i \in 1..Len(aiOutcomes) : aiOutcomes[i] # "json"}

AllAttemptsFailed ==
    /\ aiCalls = MAX_RETRIES + 1
    /\ FailedAttempts = 1..(MAX_RETRIES + 1)

\* C22: the request loop makes at most MAX_RETRIES + 1 = 3 API calls per
\* analysis; every call before the last one failed, so the loop stops at the
\* first call that returns parseable JSON (a failure followed by a valid
\* response gives a successful result after exactly 2 calls); and it returns
\* an error only when all MAX_RETRIES + 1 calls have failed.
C22_RetryLoop ==
    /\ aiCalls <= MAX_RETRIES + 1
    /\ aiCalls = Len(aiOutcomes)
    /\ \A i \in 1..(Len(aiOutcomes) - 1) : i \in FailedAttempts
    /\ aiReply # NoOutput =>
          /\ (aiReply.error = None) <=> (aiOutcomes[aiCalls] = "json")
          /\ (aiReply.error # None) => AllAttemptsFailed
    /\ (/\ aiResult # NoResult /\ aiReply # NoOutput
        /\ Len(aiOutcomes) = 2 /\ aiOutcomes[2] = "json"
        /\ aiReply.response_data # EmptyJson
        /\ ValidateAiResponse(aiReply.response_data).is_valid) =>
          (aiResult.success /\ aiCalls = 2)

\* C22 witness: the first call raised, the second returned a valid response,
\* and the analysis succeeded after exactly 2 calls.
C22_Witness ==
    /\ aiResult # NoResult /\ aiResult.outcome = "returned" /\ aiResult.success
    /\ aiOutcomes = <<"exception", "json">> /\ aiCalls = 2
    /\ aiResult.score = 72

\* The counters of an analyzer; one that was never created has counted nothing.
Counters(analyzer) ==
    IF analyzer = None THEN [daily_tokens_used |-> 0, daily_cost |-> 0]
    ELSE analyzer

\* C23: an AI analysis always returns a result and never raises; when every
\* API attempt failed, or the analyzer could not be obtained, the result has
\* success = False, score 50, label "Suspicious", tokens_used 0 and an
\* error_message that carries the failure, and the daily token and cost
\* counters are what they were before the analysis.
C23_FailureResult ==
    aiResult # NoResult =>
      /\ aiResult.outcome = "returned"
      /\ (AllAttemptsFailed \/ aiAnalyzer = None) =>
            /\ aiResult.success = FALSE
            /\ aiResult.score = 50 /\ aiResult.label = "Suspicious"
            /\ aiResult.tokens_used = 0
            /\ aiResult.error_message # None
            /\ aiResult.error_message.detail
                  \in {"Request timed out", "Expecting value",
                       "OpenAI API key not found"}
            /\ Counters(aiAnalyzer) = Counters(aiBefore)

\* C23 witness: after an analysis that was billed, one whose three attempts
\* all fail returns the failure result and leaves the counters alone.
C23_Witness ==
    /\ aiResult # NoResult /\ AllAttemptsFailed
    /\ aiBefore # None /\ aiBefore.daily_tokens_used > 0
    /\ aiAnalyzer = aiBefore
    /\ aiResult.outcome = "returned" /\ ~aiResult.success
    /\ aiResult.error_message = ErrorText("API request failed: ", "Request timed out")

(***************************************************************************)
(* Claims about batch jobs (SpecBatch)                                     *)
(***************************************************************************)
\* C28 (as claimed): once cancel_job has set the status to 'cancelled' it
\* stays 'cancelled', whatever the worker task does afterwards, and
\* cancel_job changes only jobs that are 'pending' or 'processing'.
C28_CancelledStays ==
    /\ [][job.status = "cancelled" => job'.status = "cancelled"]_vars
    /\ [](cancelReturned # None =>
            (cancelReturned.updated <=> cancelBefore \in {"pending", "processing"}))

\* C29 (as claimed): in a completed job processed_emails + failed_emails is
\* total_emails, failed_emails is the number of per-email results of status
\* 'failed', and processed_emails the number of those of status 'completed'.
C29_CountersMatchResults ==
    job.status = "completed" =>
      /\ job.processed_emails + job.failed_emails = job.total_emails
      /\ job.failed_emails = CountStatus(results, "failed")
      /\ job.processed_emails = CountStatus(results, "completed")

(***************************************************************************)
(* Claims about the in-memory cache (SpecCache)                            *)
(***************************************************************************)
\* What get(key) has to return: the value of the latest set of the key, if
\* it was not deleted since and its time has not run out.
Expected(key) ==
    IF latest[key] # None /\ now < latest[key].set_at + latest[key].hours
    THEN latest[key].value
    ELSE None

\* C30: in the in-memory cache, after any sequence of calls, get(k) returns
\* the value of the latest set(k, v) if that entry has not expired and was
\* not deleted, and None otherwise; exists(k) is True exactly when get(k)
\* would return a value; and the value map and the expiry map hold the same
\* keys.
C30_MemoryCache ==
    /\ DOMAIN memory_cache = DOMAIN memory_cache_expiry
    /\ \A key \in CacheKeyNames :
          /\ GetReturn(memory_cache, memory_cache_expiry, now, GetKey(key))
               = Expected(key)
          /\ IsLive(memory_cache, memory_cache_expiry, now, GetKey(key))
               <=> (Expected(key) # None)
    /\ (cacheCall # None /\ cacheCall.at = now) =>
          /\ cacheCall.op = "get" => cacheReturned = Expected(cacheCall.key)
          /\ cacheCall.op = "exists" =>
                (cacheReturned <=> Expected(cacheCall.key) # None)

\* C30 witness: a get of a key whose latest set has expired returned None
\* and removed the entry, while the other key is still served.
C30_Witness ==
    /\ cacheCall # None /\ cacheCall.op = "get" /\ cacheCall.at = now
    /\ latest[cacheCall.key] # None
    /\ now >= latest[cacheCall.key].set_at + latest[cacheCall.key].hours
    /\ cacheReturned = None
    /\ GetKey(cacheCall.key) \notin DOMAIN memory_cache
    /\ \E other \in CacheKeyNames : Expected(other) = [value |-> "v2"]

(***************************************************************************)
(* Claims about the parser (SpecNorm, SpecParser)                          *)
(***************************************************************************)
\* C7 (as claimed): the parsed_size of every ParsedEmail parse_email returns
\* is at most MAX_PARSED_TEXT_SIZE (1 MiB).
C7_ParsedSizeBounded ==
    pc = "returned" => pResult.parsed_size <= MAX_PARSED_TEXT_SIZE

\* C8: during and after the scan of the four contexts, len(urls) is at most
\* MAX_URLS_PER_EMAIL (500), however many matches the contexts contain.
C8_UrlsCapped ==
    /\ Len(pUrls) <= MAX_URLS_PER_EMAIL
    /\ pc = "returned" => Len(pResult.urls) <= MAX_URLS_PER_EMAIL

\* The matches _extract_urls iterates over, in the order of the scan.
AllMatches ==
    Concat([c \in 1..NumContexts |-> FindUrls(SearchContexts(pHeaders, pBody)[c])])

\* C8 witness: an email whose text and HTML bodies together hold more than
\* 500 distinct URLs was parsed; the 500th URL kept is from the HTML body.
C8_Witness ==
    /\ pc = "returned"
    /\ Len(AllMatches) > MAX_URLS_PER_EMAIL
    /\ Len(pResult.urls) = MAX_URLS_PER_EMAIL
    /\ pResult.urls[MAX_URLS_PER_EMAIL].original[5] = "A"

\* Index of the first element of seq equal to x, or 0.
FirstSeen(seq, x) ==
    IF \E k \in 1..Len(seq) : seq[k] = x
    THEN CHOOSE k \in 1..Len(seq) : seq[k] = x /\ \A j \in 1..(k - 1) : seq[j] # x
    ELSE 0

NormalizedOf(matches) == [k \in 1..Len(matches) |-> NormalizeUrl(matches[k])]

\* The entries of urls have distinct normalized forms, each is the first
\* match with its normalized form, and they are in first-seen order.
DedupedInOrder(urls, matches, normalized) ==
    /\ Cardinality({urls[i].normalized : i \in 1..Len(urls)}) = Len(urls)
    /\ \A i \in 1..Len(urls) :
          /\ FirstSeen(normalized, urls[i].normalized) > 0
          /\ urls[i].original = matches[FirstSeen(normalized, urls[i].normalized)]
    /\ \A i \in 1..(Len(urls) - 1) :
          FirstSeen(normalized, urls[i].normalized)
              < FirstSeen(normalized, urls[i + 1].normalized)

\* C9: the urls of a ParsedEmail never hold two entries with the same
\* normalized form, and the entries are in the order in which their
\* normalized form was first seen in the scan of text body, HTML body,
\* subject and return-path.
C9_UrlsDedupedInOrder ==
    pc = "returned" =>
        DedupedInOrder(pResult.urls, AllMatches, NormalizedOf(AllMatches))

\* Whether two different matches of the scan have the same normalized form.
HasVariant(matches, normalized) ==
    \E j, k \in 1..Len(matches) :
        j < k /\ matches[j] # matches[k] /\ normalized[j] = normalized[k]

\* C9 witness: the scan met a URL whose normalized form it had seen from a
\* different original, and kept URLs from the text body and from a header.
C9_Witness ==
    /\ pc = "returned"
    /\ Len(AllMatches) <= 10
    /\ HasVariant(AllMatches, NormalizedOf(AllMatches))
    /\ Len(pResult.urls) >= 3
    /\ pResult.urls[1].domain = <<"a">>
    /\ pResult.urls[Len(pResult.urls)].domain = <<"d">>

\* C11: when the raw input is larger than 25 MiB, parse_email raises
\* EmailParsingError and runs no MIME parsing, header extraction, body
\* extraction or URL extraction: after the size check it has raised, and
\* nothing was extracted.
C11_TooLargeFailsFast ==
    (pc # "idle" /\ pMsg.raw_size > MAX_RAW_SIZE) =>
        /\ pc \in {"start", "raised"}
        /\ pSteps \in {<<>>, <<"size_check">>}
        /\ pSteps = <<"size_check">> =>
               pc = "raised" /\ pResult.outcome = "EmailParsingError"
        /\ pHeaders = NoOutput /\ pBody = NoOutput
        /\ pUrls = <<>> /\ pCtx = 0 /\ pWarnings = <<>>

\* C11 witness: an email of 25 MiB + 1 bytes was refused by the size check.
C11_Witness ==
    /\ pc = "raised"
    /\ pMsg.raw_size = MAX_RAW_SIZE + 1
    /\ pSteps = <<"size_check">>
    /\ pResult.outcome = "EmailParsingError"

\* The parts of the email whose decoding fails, and the warning for each.
DecodeFailureWarnings(msg) ==
    {IF msg.multipart THEN "Failed to decode part " \o msg.parts[i].content_type
     ELSE "Failed to decode single part" :
        i \in {j \in 1..Len(msg.parts) : msg.parts[j].raises}}

\* The parts of a multipart email that are cut, and the warning for each.
PartTruncationWarnings(msg) ==
    {"Part content truncated: " \o msg.parts[i].content_type :
        i \in {j \in 1..Len(msg.parts) :
                  /\ msg.multipart /\ ~msg.parts[j].raises
                  /\ msg.parts[j].payload.len > MAX_PARSED_TEXT_SIZE}}

\* The warnings the recoverable conditions met by this parse call for:
\* truncated headers, undecodable parts, a failed HTML conversion, more
\* distinct URLs than the limit, oversized parts and oversized bodies.
ConditionWarnings ==
    (IF HeaderTooLong(pMsg.subject) THEN {"Header 'Subject' truncated"} ELSE {})
    \cup (IF HeaderTooLong(pMsg.return_path)
          THEN {"Header 'Return-Path' truncated"} ELSE {})
    \cup DecodeFailureWarnings(pMsg)
    \cup PartTruncationWarnings(pMsg)
    \cup (IF "html2text_raised" \in Range(pSteps)
          THEN {"HTML to text conversion failed"} ELSE {})
    \cup (IF Cardinality(Range(NormalizedOf(AllMatches))) > MAX_URLS_PER_EMAIL
          THEN {"URL limit reached: 500"} ELSE {})
    \cup (IF ParsedSize(pBody) > MAX_PARSED_TEXT_SIZE
          THEN {"Parsed content truncated"} ELSE {})

\* Whether the email has one of the fatal conditions: too large, MIME parsing
\* fails or is too slow, or the email package fails on its headers.
HasFatalCondition(msg) ==
    \/ msg.raw_size > MAX_RAW_SIZE
    \/ msg.mime_error \/ msg.mime_seconds > MAX_PARSE_TIME
    \/ msg.header_error

C13_TwoOutcomes ==
    /\ (pResult # NoResult) <=> (pc \in {"returned", "raised"})
    /\ pc = "returned" =>
          /\ pResult.outcome = "returned"
          /\ pResult.security_warnings = FinalWarnings(pBody, pWarnings)
    /\ pc = "raised" =>
          /\ pResult.outcome = "EmailParsingError"
          /\ DOMAIN pResult = {"outcome", "message"}

\* C13 witness: the email package raised an IndexError in the header
\* extraction, and parse_email raised EmailParsingError.
C13_Witness ==
    /\ pc = "raised"
    /\ pMsg.header_error
    /\ pSteps = <<"size_check", "mime_parse", "extract_headers">>
    /\ pResult.outcome = "EmailParsingError"

\* A single-part text/plain email with a body of 2 MiB, below the raw
\* ceiling, that the MIME parser and the header extraction do not fail on.
IsTwoMiBPlainText(msg) ==
    /\ ~msg.multipart
    /\ msg.parts[1].content_type = "text/plain" /\ ~msg.parts[1].raises
    /\ msg.parts[1].payload.len = 2 * MAX_PARSED_TEXT_SIZE
    /\ ~HasFatalCondition(msg)

\* C14: a single-part plain-text email of 2 MiB is parsed without a fatal
\* error, and the security_warnings of the ParsedEmail returned hold a
\* truncation warning.
C14_TwoMiBTextParses ==
    (pc # "idle" /\ IsTwoMiBPlainText(pMsg)) =>
        /\ pc # "raised"
        /\ pc = "returned" =>
              /\ pResult.outcome = "returned"
              /\ "Parsed content truncated" \in Range(pResult.security_warnings)

\* C14 witness: such an email was parsed; its text body was cut to half the
\* maximum parsed size.
C14_Witness ==
    /\ pc = "returned"
    /\ IsTwoMiBPlainText(pMsg)
    /\ pResult.text_body.len = MAX_PARSED_TEXT_SIZE \div 2
    /\ "Parsed content truncated" \in Range(pResult.security_warnings)

\* C20: ParsedHeaders.received holds at most 20 Received headers, and they
\* are the first 20 of the message, in message order (each cleaned and cut
\* to 1000 characters).
C20_ReceivedCapped ==
    pHeaders # NoOutput =>
        /\ Len(pHeaders.received) <= MAX_RECEIVED
        /\ Len(pHeaders.received) = Min(Len(pMsg.received), MAX_RECEIVED)
        /\ \A i \in 1..Len(pHeaders.received) :
              pHeaders.received[i]
                  = Truncate(CleanText(pMsg.received[i]), MAX_RECEIVED_LEN)

\* C20 witness: an email with more than 20 Received headers was parsed; 20
\* were kept, the last of them the 20th of the message.
C20_Witness ==
    /\ pc = "returned"
    /\ Len(pMsg.received) > MAX_RECEIVED
    /\ Len(pResult.headers.received) = MAX_RECEIVED
    /\ pResult.headers.received[MAX_RECEIVED].len = 100 + MAX_RECEIVED - 2
    /\ pResult.headers.received[3].len = MAX_RECEIVED_LEN

\* The fields of ParsedHeaders a header fills.
FieldsOf(header_name) ==
    CASE header_name = "From" -> {"from_addr", "from_display"}
      [] header_name = "To" -> {"to_addr"}
      [] header_name = "Reply-To" -> {"reply_to"}
      [] header_name = "Return-Path" -> {"return_path"}
      [] header_name = "Subject" -> {"subject"}
      [] header_name = "Date" -> {"date"}
      [] header_name = "Authentication-Results" -> {"authentication_results"}
      [] OTHER -> {"message_id"}

\* C21: a header absent from the message yields the empty string in its
\* field(s) of ParsedHeaders, never a null value, and header extraction of
\* such a message does not raise.
C21_AbsentHeaderIsEmpty ==
    /\ pHeaders # NoOutput =>
          \A h \in pMsg.absent : \A f \in FieldsOf(h) : pHeaders[f] = EmptyStr
    /\ (pc = "raised" /\ pSteps[Len(pSteps)] = "extract_headers") =>
          pMsg.header_error

\* C21 witness: an email with none of the headers was parsed; every field
\* is the empty string and there is no Received entry.
C21_Witness ==
    /\ pc = "returned" /\ pMsg.absent = HeaderNames
    /\ \A h \in HeaderNames : \A f \in FieldsOf(h) :
          pResult.headers[f] = EmptyStr
    /\ pResult.headers.received = <<>>

HasUrlLimitWarning(warnings) ==
    \E i \in 1..Len(warnings) : warnings[i] = "URL limit reached: 500"

\* A match of the scan whose normalized form is in no entry of urls: the
\* scan skips duplicates only, so such a URL was dropped at the limit.
DroppedDistinctUrl(urls, normalized) ==
    \E k \in 1..Len(normalized) :
        \A i \in 1..Len(urls) : urls[i].normalized # normalized[k]

\* C27: security_warnings holds a URL-limit warning only if the scan
\* collected MAX_URLS_PER_EMAIL URLs and met a further match (none when
\* fewer URLs than the cap were collected), and it holds one whenever a
\* further distinct URL was dropped because of the cap.
C27_UrlLimitWarning ==
    pc = "returned" =>
        /\ HasUrlLimitWarning(pResult.security_warnings) =>
              /\ Len(pResult.urls) = MAX_URLS_PER_EMAIL
              /\ Len(AllMatches) > MAX_URLS_PER_EMAIL
        /\ Len(pResult.urls) < MAX_URLS_PER_EMAIL =>
              ~HasUrlLimitWarning(pResult.security_warnings)
        /\ DroppedDistinctUrl(pResult.urls, NormalizedOf(AllMatches)) =>
              HasUrlLimitWarning(pResult.security_warnings)

\* C27 witness: an email with more distinct URLs than the cap was parsed,
\* URLs were dropped and the warning is there.
C27_Witness ==
    /\ pc = "returned"
    /\ DroppedDistinctUrl(pResult.urls, NormalizedOf(AllMatches))
    /\ Len(pResult.urls) = MAX_URLS_PER_EMAIL
    /\ HasUrlLimitWarning(pResult.security_warnings)

\* C10 (as claimed): URL normalization is idempotent,
\* _normalize_url(_normalize_url(u)) = _normalize_url(u) for every extracted u.
C10_NormalizeIdempotent ==
    nTwice # NoUrl => nTwice = nOnce

====
